---- MODULE Spec2Model ----
(***************************************************************************)
(* AutoFlow core validator (src/core/validator.ts) and its permission      *)
(* tables (src/core/permission-mappings.ts).                               *)
(*                                                                         *)
(* JavaScript objects with optional properties are records whose DOMAIN    *)
(* holds exactly the properties that are set.  Strings that the code only  *)
(* compares for equality are TLA+ strings; strings that the code matches   *)
(* against a regular expression are sequences of one-character strings;    *)
(* capability names, which the code sorts, carry their UTF-16 code units   *)
(* in CodeUnits.                                                           *)
(***************************************************************************)
EXTENDS Integers, Sequences, FiniteSets, TLC

\* ------------------------------------------------------------------ bounds
\* Longest node list a caller passes.
MaxNodes == 2
\* Number of validator calls made on one validator instance.
MaxCalls == 2
\* Longest automations list of a pack.
MaxAutomations == 2

\* ------------------------------------------------------- generic helpers
Empty == [x \in {} |-> x]

Opt(k, present, v) == IF present THEN k :> v ELSE Empty

Has(r, k) == k \in DOMAIN r

Range(s) == { s[i] : i \in 1..Len(s) }

RECURSIVE Concat(_)
Concat(ss) == IF Len(ss) = 0 THEN <<>> ELSE Head(ss) \o Concat(Tail(ss))

\* ------------------------------------------------------ permission tables
ACTION_PERMISSION_MAPPINGS ==
    ("send_message" :> <<"SEND_MESSAGES", "VIEW_CHANNEL">>) @@
    ("edit_message" :> <<"SEND_MESSAGES", "VIEW_CHANNEL">>) @@
    ("send_direct_message" :> <<>>) @@
    ("delete_message" :> <<"MANAGE_MESSAGES", "VIEW_CHANNEL">>) @@
    ("log_event" :> <<"SEND_MESSAGES", "VIEW_CHANNEL">>) @@
    ("add_role" :> <<"MANAGE_ROLES">>) @@
    ("remove_role" :> <<"MANAGE_ROLES">>) @@
    ("change_nickname" :> <<"MANAGE_NICKNAMES">>) @@
    ("kick_user" :> <<"KICK_MEMBERS">>) @@
    ("ban_user" :> <<"BAN_MEMBERS">>) @@
    ("unban_user" :> <<"BAN_MEMBERS">>) @@
    ("mute_user" :> <<"MODERATE_MEMBERS">>) @@
    ("unmute_user" :> <<"MODERATE_MEMBERS">>) @@
    ("create_channel" :> <<"MANAGE_CHANNELS">>) @@
    ("delete_channel" :> <<"MANAGE_CHANNELS">>) @@
    ("create_category" :> <<"MANAGE_CHANNELS">>) @@
    ("modify_channel" :> <<"MANAGE_CHANNELS">>) @@
    ("add_reaction" :> <<"ADD_REACTIONS", "VIEW_CHANNEL">>) @@
    ("remove_reaction" :> <<"MANAGE_MESSAGES", "VIEW_CHANNEL">>) @@
    ("pin_message" :> <<"MANAGE_MESSAGES", "VIEW_CHANNEL">>) @@
    ("unpin_message" :> <<"MANAGE_MESSAGES", "VIEW_CHANNEL">>) @@
    ("variable_update" :> <<>>) @@
    ("database_insert" :> <<>>) @@
    ("database_query" :> <<>>) @@
    ("webhook_send" :> <<"MANAGE_WEBHOOKS">>) @@
    ("http_request" :> <<>>) @@
    ("create_invite" :> <<"CREATE_INSTANT_INVITE">>)

TRIGGER_PERMISSION_MAPPINGS ==
    ("user_join" :> <<>>) @@
    ("user_leave" :> <<>>) @@
    ("user_ban" :> <<>>) @@
    ("user_kick" :> <<>>) @@
    ("user_update" :> <<>>) @@
    ("send_message" :> <<"VIEW_CHANNEL">>) @@
    ("message_delete" :> <<"VIEW_CHANNEL">>) @@
    ("message_edit" :> <<"VIEW_CHANNEL">>) @@
    ("channel_create" :> <<>>) @@
    ("channel_delete" :> <<>>) @@
    ("role_create" :> <<>>) @@
    ("role_delete" :> <<>>) @@
    ("role_add" :> <<>>) @@
    ("role_remove" :> <<>>) @@
    ("reaction_add" :> <<"VIEW_CHANNEL">>) @@
    ("reaction_remove" :> <<"VIEW_CHANNEL">>) @@
    ("voice_channel_join" :> <<"VIEW_CHANNEL", "CONNECT">>) @@
    ("voice_channel_leave" :> <<"VIEW_CHANNEL", "CONNECT">>) @@
    ("server_update" :> <<>>) @@
    ("slash_command" :> <<>>) @@
    ("prefixed_command" :> <<>>)

PERMISSION_SEVERITY ==
    ("ADMINISTRATOR" :> "dangerous") @@
    ("BAN_MEMBERS" :> "dangerous") @@
    ("KICK_MEMBERS" :> "dangerous") @@
    ("MANAGE_GUILD" :> "dangerous") @@
    ("MANAGE_ROLES" :> "dangerous") @@
    ("MANAGE_WEBHOOKS" :> "dangerous") @@
    ("MODERATE_MEMBERS" :> "dangerous") @@
    ("MANAGE_CHANNELS" :> "moderate") @@
    ("MANAGE_MESSAGES" :> "moderate") @@
    ("MANAGE_NICKNAMES" :> "moderate") @@
    ("MANAGE_THREADS" :> "moderate") @@
    ("MANAGE_EVENTS" :> "moderate") @@
    ("MANAGE_EMOJIS_AND_STICKERS" :> "moderate") @@
    ("SEND_MESSAGES" :> "safe") @@
    ("VIEW_CHANNEL" :> "safe") @@
    ("ADD_REACTIONS" :> "safe") @@
    ("CREATE_INSTANT_INVITE" :> "safe") @@
    ("READ_MESSAGE_HISTORY" :> "safe") @@
    ("SEND_MESSAGES_IN_THREADS" :> "safe") @@
    ("EMBED_LINKS" :> "safe") @@
    ("ATTACH_FILES" :> "safe") @@
    ("USE_EXTERNAL_EMOJIS" :> "safe") @@
    ("USE_EXTERNAL_STICKERS" :> "safe") @@
    ("CONNECT" :> "safe") @@
    ("SPEAK" :> "safe") @@
    ("STREAM" :> "safe") @@
    ("USE_VAD" :> "safe") @@
    ("CHANGE_NICKNAME" :> "safe") @@
    ("USE_APPLICATION_COMMANDS" :> "safe")

\* UTF-16 code units of every capability name, the key of Array.prototype.sort.
CodeUnits ==
    ("ADD_REACTIONS" :> <<65, 68, 68, 95, 82, 69, 65, 67, 84, 73, 79, 78, 83>>) @@
    ("ADMINISTRATOR" :> <<65, 68, 77, 73, 78, 73, 83, 84, 82, 65, 84, 79, 82>>) @@
    ("ATTACH_FILES" :> <<65, 84, 84, 65, 67, 72, 95, 70, 73, 76, 69, 83>>) @@
    ("BAN_MEMBERS" :> <<66, 65, 78, 95, 77, 69, 77, 66, 69, 82, 83>>) @@
    ("CHANGE_NICKNAME" :> <<67, 72, 65, 78, 71, 69, 95, 78, 73, 67, 75, 78, 65, 77, 69>>) @@
    ("CONNECT" :> <<67, 79, 78, 78, 69, 67, 84>>) @@
    ("CREATE_INSTANT_INVITE" :> <<67, 82, 69, 65, 84, 69, 95, 73, 78, 83, 84, 65, 78, 84, 95, 73, 78, 86, 73, 84, 69>>) @@
    ("EMBED_LINKS" :> <<69, 77, 66, 69, 68, 95, 76, 73, 78, 75, 83>>) @@
    ("KICK_MEMBERS" :> <<75, 73, 67, 75, 95, 77, 69, 77, 66, 69, 82, 83>>) @@
    ("MANAGE_CHANNELS" :> <<77, 65, 78, 65, 71, 69, 95, 67, 72, 65, 78, 78, 69, 76, 83>>) @@
    ("MANAGE_EMOJIS_AND_STICKERS" :> <<77, 65, 78, 65, 71, 69, 95, 69, 77, 79, 74, 73, 83, 95, 65, 78, 68, 95, 83, 84, 73, 67, 75, 69, 82, 83>>) @@
    ("MANAGE_EVENTS" :> <<77, 65, 78, 65, 71, 69, 95, 69, 86, 69, 78, 84, 83>>) @@
    ("MANAGE_GUILD" :> <<77, 65, 78, 65, 71, 69, 95, 71, 85, 73, 76, 68>>) @@
    ("MANAGE_MESSAGES" :> <<77, 65, 78, 65, 71, 69, 95, 77, 69, 83, 83, 65, 71, 69, 83>>) @@
    ("MANAGE_NICKNAMES" :> <<77, 65, 78, 65, 71, 69, 95, 78, 73, 67, 75, 78, 65, 77, 69, 83>>) @@
    ("MANAGE_ROLES" :> <<77, 65, 78, 65, 71, 69, 95, 82, 79, 76, 69, 83>>) @@
    ("MANAGE_THREADS" :> <<77, 65, 78, 65, 71, 69, 95, 84, 72, 82, 69, 65, 68, 83>>) @@
    ("MANAGE_WEBHOOKS" :> <<77, 65, 78, 65, 71, 69, 95, 87, 69, 66, 72, 79, 79, 75, 83>>) @@
    ("MODERATE_MEMBERS" :> <<77, 79, 68, 69, 82, 65, 84, 69, 95, 77, 69, 77, 66, 69, 82, 83>>) @@
    ("READ_MESSAGE_HISTORY" :> <<82, 69, 65, 68, 95, 77, 69, 83, 83, 65, 71, 69, 95, 72, 73, 83, 84, 79, 82, 89>>) @@
    ("SEND_MESSAGES" :> <<83, 69, 78, 68, 95, 77, 69, 83, 83, 65, 71, 69, 83>>) @@
    ("SEND_MESSAGES_IN_THREADS" :> <<83, 69, 78, 68, 95, 77, 69, 83, 83, 65, 71, 69, 83, 95, 73, 78, 95, 84, 72, 82, 69, 65, 68, 83>>) @@
    ("SPEAK" :> <<83, 80, 69, 65, 75>>) @@
    ("STREAM" :> <<83, 84, 82, 69, 65, 77>>) @@
    ("USE_APPLICATION_COMMANDS" :> <<85, 83, 69, 95, 65, 80, 80, 76, 73, 67, 65, 84, 73, 79, 78, 95, 67, 79, 77, 77, 65, 78, 68, 83>>) @@
    ("USE_EXTERNAL_EMOJIS" :> <<85, 83, 69, 95, 69, 88, 84, 69, 82, 78, 65, 76, 95, 69, 77, 79, 74, 73, 83>>) @@
    ("USE_EXTERNAL_STICKERS" :> <<85, 83, 69, 95, 69, 88, 84, 69, 82, 78, 65, 76, 95, 83, 84, 73, 67, 75, 69, 82, 83>>) @@
    ("USE_VAD" :> <<85, 83, 69, 95, 86, 65, 68>>) @@
    ("VIEW_CHANNEL" :> <<86, 73, 69, 87, 95, 67, 72, 65, 78, 78, 69, 76>>)

\* Property names every object literal inherits from Object.prototype; the
\* `in` operator answers true for them as well as for the table's own keys.
ObjectPrototypeKeys ==
    { "constructor", "toString", "toLocaleString", "valueOf", "hasOwnProperty",
      "isPrototypeOf", "propertyIsEnumerable", "__proto__",
      "__defineGetter__", "__defineSetter__", "__lookupGetter__", "__lookupSetter__" }

hasActionPermissionMapping(action) ==
    action \in DOMAIN ACTION_PERMISSION_MAPPINGS \/ action \in ObjectPrototypeKeys

hasTriggerPermissionMapping(trigger) ==
    trigger \in DOMAIN TRIGGER_PERMISSION_MAPPINGS \/ trigger \in ObjectPrototypeKeys

\* table[key] for a key that `in` accepted: an own key yields its array, an
\* inherited key yields a value of Object.prototype that has no forEach and
\* is not iterable.
TableLookup(table, key) ==
    IF key \in DOMAIN table THEN [isArray |-> TRUE, items |-> table[key]]
    ELSE [isArray |-> FALSE, items |-> <<>>]

\* ---------------------------------------------------------- string order
\* a < b in UTF-16 code unit order (the default comparator of sort()).
RECURSIVE UnitsLess(_, _)
UnitsLess(a, b) ==
    IF Len(b) = 0 THEN FALSE
    ELSE IF Len(a) = 0 THEN TRUE
    ELSE IF Head(a) # Head(b) THEN Head(a) < Head(b)
    ELSE UnitsLess(Tail(a), Tail(b))

StrLess(a, b) == UnitsLess(CodeUnits[a], CodeUnits[b])

RECURSIVE SortInsert(_, _)
SortInsert(sorted, x) ==
    IF Len(sorted) = 0 THEN <<x>>
    ELSE IF StrLess(x, Head(sorted)) THEN <<x>> \o sorted
    ELSE <<Head(sorted)>> \o SortInsert(Tail(sorted), x)

\* Array.prototype.sort() without comparator, on strings.
RECURSIVE Sort(_)
Sort(s) == IF Len(s) = 0 THEN <<>> ELSE SortInsert(Sort(Tail(s)), Head(s))

\* Set.prototype.add on a Set kept in insertion order.
SetAdd(set, x) == IF x \in Range(set) THEN set ELSE Append(set, x)

RECURSIVE SetAddAll(_, _)
SetAddAll(set, items) ==
    IF Len(items) = 0 THEN set ELSE SetAddAll(SetAdd(set, Head(items)), Tail(items))

\* ------------------------------------------------------- configuration
DefaultVariableNamePattern == "^[a-zA-Z][a-zA-Z0-9_]*$"

DEFAULT_LINT_CONFIG ==
    [ rules |->
        ("schema/required-fields" :> "error") @@
        ("schema/field-types" :> "error") @@
        ("schema/semver" :> "error") @@
        ("schema/enum-values" :> "error") @@
        ("graph/missing-nodes" :> "error") @@
        ("graph/entry-points" :> "error") @@
        ("graph/unreachable-nodes" :> "warn") @@
        ("graph/infinite-loops" :> "error") @@
        ("graph/dead-ends" :> "warn") @@
        ("variable/undefined-reference" :> "error") @@
        ("variable/invalid-interpolation" :> "error") @@
        ("variable/scope-mismatch" :> "warn") @@
        ("variable/naming-convention" :> "warn") @@
        ("trigger/unknown-event" :> "error") @@
        ("trigger/invalid-command" :> "error") @@
        ("action/unknown-type" :> "error") @@
        ("action/missing-params" :> "error") @@
        ("security/missing-permissions" :> "error") @@
        ("security/excessive-permissions" :> "warn") @@
        ("security/hardcoded-secrets" :> "error") @@
        ("security/pii-exposure" :> "warn") @@
        ("perf/missing-weight" :> "warn") @@
        ("perf/high-weight" :> "warn") @@
        ("perf/deep-nesting" :> "warn") @@
        ("perf/large-workflow" :> "info") @@
        ("style/naming-convention" :> "warn") @@
        ("style/description-required" :> "warn") @@
        ("style/icon-color-consistency" :> "info") @@
        ("style/deprecated-features" :> "warn"),
      settings |->
        [ rateLimits |->
            [ maxWorkflowWeight |-> 1000,
              maxNodeWeight |-> 100,
              \* 0.8, kept as an exact fraction
              warnThreshold |-> [num |-> 4, den |-> 5] ],
          naming |->
            [ workflowIdPattern |-> "^automation-[A-Za-z0-9]{15}$",
              nodeIdPattern |-> "^[a-zA-Z][a-zA-Z0-9_-]*$",
              variableNamePattern |-> DefaultVariableNamePattern ] ] ]

ERROR_CATALOG ==
    (3310 :> [family |-> "AUT", severity |-> "warn"]) @@
    (3311 :> [family |-> "AUT", severity |-> "error"]) @@
    (3312 :> [family |-> "AUT", severity |-> "error"]) @@
    (3313 :> [family |-> "AUT", severity |-> "warn"]) @@
    (4120 :> [family |-> "AUT", severity |-> "warn"]) @@
    (4121 :> [family |-> "AUT", severity |-> "warn"]) @@
    (5510 :> [family |-> "SYS", severity |-> "error"]) @@
    (5511 :> [family |-> "SYS", severity |-> "error"])

\* { ...a, ...b }: the properties of b replace those of a, one by one.
Spread(a, b) == b @@ a

\* new AutoFlowValidator(config): the merged configuration.  `rules` is
\* merged rule by rule, `settings` group by group.
Constructor(config) ==
    [ rules |-> Spread(DEFAULT_LINT_CONFIG.rules,
                       IF Has(config, "rules") THEN config.rules ELSE Empty),
      settings |-> Spread(DEFAULT_LINT_CONFIG.settings,
                          IF Has(config, "settings") THEN config.settings ELSE Empty) ]

\* const c = this.config.rules[ruleId]; return c && c !== 'off'
isRuleEnabled(cfg, ruleId) ==
    /\ ruleId \in DOMAIN cfg.rules
    /\ cfg.rules[ruleId] # "off"

\* issues.filter(issue => rules[issue.ruleId] && rules[issue.ruleId] !== 'off')
filterIssues(cfg, issues) ==
    SelectSeq(issues, LAMBDA issue :
        /\ issue.ruleId \in DOMAIN cfg.rules
        /\ cfg.rules[issue.ruleId] # "off")

\* The issue built by createIssue when the counter stands at n.  The id
\* `issue-${n}` is the pair <<"issue", n>>; message, remediation and
\* timestamp are text for the reader and are left out.
createIssue(n, ruleId, errorCode, location) ==
    [ id |-> <<"issue", n>>,
      ruleId |-> ruleId,
      errorCode |-> <<ERROR_CATALOG[errorCode].family, errorCode>>,
      family |-> ERROR_CATALOG[errorCode].family,
      severity |-> ERROR_CATALOG[errorCode].severity,
      location |-> location,
      fixable |-> FALSE ]

\* createSystemError filing the issue under the rule of the schema checks.
createSystemErrorUnderSchemaRule(n) ==
    [ id |-> <<"system-error", n>>,
      ruleId |-> "schema/field-types",
      errorCode |-> <<"SYS", 5510>>,
      family |-> "SYS",
      severity |-> "error",
      location |-> Empty,
      fixable |-> FALSE ]

createSystemError(n) ==
    [ id |-> <<"system-error", n>>,
      ruleId |-> "system/parse-error",
      errorCode |-> <<"SYS", 5510>>,
      family |-> "SYS",
      severity |-> "error",
      location |-> Empty,
      fixable |-> FALSE ]

\* CreateAll without the `++` of createIssue.
CreateAllOneNumber(n, found) ==
    [ i \in 1..Len(found) |->
        createIssue(n, found[i].ruleId, found[i].errorCode, found[i].location) ]

\* A validator pushes one createIssue(...) per finding, in order; `found` is
\* the list of findings [ruleId, errorCode, location] and n the counter
\* before the first of them (nextIssueId++ once per issue).
CreateAll(n, found) ==
    [ i \in 1..Len(found) |->
        createIssue(n + i - 1, found[i].ruleId, found[i].errorCode, found[i].location) ]

Finding(ruleId, errorCode, location) ==
    [ruleId |-> ruleId, errorCode |-> errorCode, location |-> location]

\* ---------------------------------------------------- regular expressions
\* A string that is matched against a pattern is the sequence of its
\* characters: "1.0.0" is <<"1", ".", "0", ".", "0">>.
Digits == {"0", "1", "2", "3", "4", "5", "6", "7", "8", "9"}

LowerCase == {"a", "b", "c", "d", "e", "f", "g", "h", "i", "j", "k", "l", "m", "n", "o", "p", "q", "r", "s", "t", "u", "v", "w", "x", "y", "z"}

UpperCase == {"A", "B", "C", "D", "E", "F", "G", "H", "I", "J", "K", "L", "M", "N", "O", "P", "Q", "R", "S", "T", "U", "V", "W", "X", "Y", "Z"}

Letters == LowerCase \cup UpperCase

\* index after the longest run of characters of `class` that starts at i
RECURSIVE RunEnd(_, _, _)
RunEnd(s, i, class) ==
    IF i <= Len(s) /\ s[i] \in class THEN RunEnd(s, i + 1, class) ELSE i

\* (0|[1-9]\d*) at position i: the index after the match, 0 when none
NumericEnd(s, i) ==
    IF i > Len(s) THEN 0
    ELSE IF s[i] = "0" THEN i + 1
    ELSE IF s[i] \in Digits THEN RunEnd(s, i + 1, Digits)
    ELSE 0

\* \. at position i
DotEnd(s, i) == IF i # 0 /\ i <= Len(s) /\ s[i] = "." THEN i + 1 ELSE 0

\* (?:<lead>[0-9A-Za-z.-]+)? at position i
TagEnd(s, i, lead) ==
    IF i <= Len(s) /\ s[i] = lead
       /\ RunEnd(s, i + 1, Digits \cup Letters \cup {".", "-"}) > i + 1
    THEN RunEnd(s, i + 1, Digits \cup Letters \cup {".", "-"})
    ELSE i

\* /^(0|[1-9]\d*)\.(0|[1-9]\d*)\.(0|[1-9]\d*)(?:-[0-9A-Za-z.-]+)?(?:\+[0-9A-Za-z.-]+)?$/
semverPattern(version) ==
    LET major == NumericEnd(version, 1)
        minor == IF DotEnd(version, major) = 0 THEN 0
                 ELSE NumericEnd(version, DotEnd(version, major))
        patch == IF DotEnd(version, minor) = 0 THEN 0
                 ELSE NumericEnd(version, DotEnd(version, minor))
    IN  /\ patch # 0
        /\ TagEnd(version, TagEnd(version, patch, "-"), "+") = Len(version) + 1

\* The patterns new RegExp() rejects with a SyntaxError.
RegExpSyntaxErrors == {"[", "(", "*"}

\* new RegExp(pattern).test(s) for the patterns a configuration carries.
RegExpTest(pattern, s) ==
    CASE pattern = "^[a-zA-Z][a-zA-Z0-9_]*$" ->
            /\ Len(s) > 0
            /\ s[1] \in Letters
            /\ RunEnd(s, 2, Letters \cup Digits \cup {"_"}) = Len(s) + 1
      [] pattern = "^[a-z]+$" ->
            /\ Len(s) > 0
            /\ RunEnd(s, 1, LowerCase) = Len(s) + 1

\* ------------------------------------------------------------ validators
\* Every validator takes the issue counter n it starts from and returns the
\* issues it pushed; the counter afterwards is n + Len(issues).

\* !workflow[field]: the property is unset or holds the empty string
FieldMissing(workflow, field) ==
    \/ ~Has(workflow, field)
    \/ field \in {"id", "name"} /\ workflow[field] = ""
    \/ field = "version" /\ workflow[field] = <<>>

requiredFields == <<"id", "name", "version", "trigger">>

validateWorkflowStructure(cfg, workflow, n) ==
    IF ~isRuleEnabled(cfg, "schema/required-fields") THEN <<>>
    ELSE
        LET missing == SelectSeq(requiredFields, LAMBDA f : FieldMissing(workflow, f))
            required == [ i \in 1..Len(missing) |->
                            Finding("schema/required-fields", 5511, [path |-> <<missing[i]>>]) ]
            semver == IF /\ ~FieldMissing(workflow, "version")
                         /\ isRuleEnabled(cfg, "schema/semver")
                         /\ ~semverPattern(workflow.version)
                      THEN << Finding("schema/semver", 5511, [path |-> <<"version">>]) >>
                      ELSE <<>>
        IN  CreateAll(n, required \o semver)

\* node.connections || []
Connections(node) == IF Has(node, "connections") THEN node.connections ELSE <<>>

\* the (node, target) pairs in the order the two nested loops visit them
RECURSIVE Edges(_)
Edges(nodes) ==
    IF Len(nodes) = 0 THEN <<>>
    ELSE [ i \in 1..Len(Connections(Head(nodes))) |->
             [src |-> Head(nodes).id, tgt |-> Connections(Head(nodes))[i]] ]
         \o Edges(Tail(nodes))

RECURSIVE BuildConnections(_, _, _, _)
\* BuildConnections treating a connection of a node to itself as one to a
\* node that is not declared.
BuildConnectionsSelfLoopMissing(cfg, nodeIds, edges, acc) ==
    IF Len(edges) = 0 THEN acc
    ELSE
        LET e == Head(edges) IN
        IF (e.tgt \notin nodeIds \/ e.tgt = e.src) /\ isRuleEnabled(cfg, "graph/missing-nodes")
        THEN BuildConnections(cfg, nodeIds, Tail(edges),
                [acc EXCEPT !.found = Append(@,
                    Finding("graph/missing-nodes", 3311, [nodeId |-> e.src]))])
        ELSE BuildConnections(cfg, nodeIds, Tail(edges),
                [acc EXCEPT
                    !.adjacencyList[e.src] = Append(@, e.tgt),
                    !.reverseAdjacencyList =
                        IF e.tgt \in nodeIds
                        THEN [@ EXCEPT ![e.tgt] = Append(@, e.src)]
                        ELSE @])

\* "Build connections": acc holds the findings and the two adjacency maps
BuildConnections(cfg, nodeIds, edges, acc) ==
    IF Len(edges) = 0 THEN acc
    ELSE
        LET e == Head(edges) IN
        IF e.tgt \notin nodeIds /\ isRuleEnabled(cfg, "graph/missing-nodes")
        THEN BuildConnections(cfg, nodeIds, Tail(edges),
                [acc EXCEPT !.found = Append(@,
                    Finding("graph/missing-nodes", 3311, [nodeId |-> e.src]))])
        ELSE BuildConnections(cfg, nodeIds, Tail(edges),
                [acc EXCEPT
                    !.adjacencyList[e.src] = Append(@, e.tgt),
                    !.reverseAdjacencyList =
                        IF e.tgt \in nodeIds
                        THEN [@ EXCEPT ![e.tgt] = Append(@, e.src)]
                        ELSE @])

\* dfs(nodeId) on the closure variable `reachable`; dfsEach is its for loop
RECURSIVE dfs(_, _, _)
RECURSIVE dfsEach(_, _, _)
dfs(adjacencyList, nodeId, reachable) ==
    IF nodeId \in reachable THEN reachable
    ELSE dfsEach(adjacencyList,
                 IF nodeId \in DOMAIN adjacencyList THEN adjacencyList[nodeId] ELSE <<>>,
                 reachable \cup {nodeId})

dfsEach(adjacencyList, ids, reachable) ==
    IF Len(ids) = 0 THEN reachable
    ELSE dfsEach(adjacencyList, Tail(ids), dfs(adjacencyList, Head(ids), reachable))

\* the adjacency maps and the missing-node findings of a node list
GraphOf(cfg, nodes) ==
    LET nodeIds == { nodes[i].id : i \in 1..Len(nodes) } IN
    BuildConnections(cfg, nodeIds, Edges(nodes),
        [ found |-> <<>>,
          adjacencyList |-> [id \in nodeIds |-> <<>>],
          reverseAdjacencyList |-> [id \in nodeIds |-> <<>>] ])

\* entryNodesOf keeping the nodes of type trigger only.
entryNodesOfTriggersOnly(nodes, graph) ==
    SelectSeq(nodes, LAMBDA node : Has(node, "type") /\ node.type = "trigger")

\* nodes.filter(node => node.type === 'trigger' ||
\*              (reverseAdjacencyList.get(node.id)?.length || 0) === 0)
entryNodesOf(nodes, graph) ==
    SelectSeq(nodes, LAMBDA node :
        \/ Has(node, "type") /\ node.type = "trigger"
        \/ Len(graph.reverseAdjacencyList[node.id]) = 0)

\* reachableOf with a dfs that adds its node and follows no connection.
reachableOfEntriesOnly(graph, entryNodes) ==
    { entryNodes[i].id : i \in 1..Len(entryNodes) }

\* the Set `reachable` after entryNodes.forEach(node => dfs(node.id))
reachableOf(graph, entryNodes) ==
    dfsEach(graph.adjacencyList,
            [ i \in 1..Len(entryNodes) |-> entryNodes[i].id ],
            {})

\* entryPointFindings asking for an entry node of type trigger.
entryPointFindingsTriggerOnly(cfg, entryNodes) ==
    IF /\ isRuleEnabled(cfg, "graph/entry-points")
       /\ \A i \in 1..Len(entryNodes) : entryNodes[i].type # "trigger"
    THEN << Finding("graph/entry-points", 3311, [path |-> <<"nodes">>]) >>
    ELSE <<>>

\* "Validate entry points"
entryPointFindings(cfg, entryNodes) ==
    IF isRuleEnabled(cfg, "graph/entry-points") /\ Len(entryNodes) = 0
    THEN << Finding("graph/entry-points", 3311, [path |-> <<"nodes">>]) >>
    ELSE <<>>

validateGraphIntegrity(cfg, nodes, n) ==
    IF Len(nodes) = 0 THEN <<>>
    ELSE
        LET graph == GraphOf(cfg, nodes)
            entryNodes == entryNodesOf(nodes, graph)
            reachable == reachableOf(graph, entryNodes)
            entry == entryPointFindings(cfg, entryNodes)
            unreachableNodes == SelectSeq(nodes, LAMBDA node : node.id \notin reachable)
            unreachable ==
                IF isRuleEnabled(cfg, "graph/unreachable-nodes")
                THEN [ i \in 1..Len(unreachableNodes) |->
                         Finding("graph/unreachable-nodes", 3310,
                                 [nodeId |-> unreachableNodes[i].id]) ]
                ELSE <<>>
        IN  CreateAll(n, graph.found \o entry \o unreachable)

\* !node.action
ActionMissing(node) == ~Has(node, "action") \/ node.action = ""

\* settings?.rateLimits?.<key> || dflt  (0 is falsy)
RateLimit(cfg, key, dflt) ==
    IF /\ Has(cfg.settings, "rateLimits")
       /\ Has(cfg.settings.rateLimits, key)
       /\ cfg.settings.rateLimits[key] # 0
    THEN cfg.settings.rateLimits[key]
    ELSE dflt

\* the findings of one pass of the loop body of validateNodeList
NodeFindings(cfg, node) ==
    (IF /\ Has(node, "type") /\ node.type = "action"
        /\ isRuleEnabled(cfg, "action/unknown-type")
        /\ ActionMissing(node)
     THEN << Finding("action/missing-params", 3311, [nodeId |-> node.id]) >>
     ELSE <<>>)
    \o
    (IF /\ Has(node, "type") /\ node.type = "action"
        /\ isRuleEnabled(cfg, "perf/missing-weight")
        /\ ~Has(node, "weight")
     THEN << Finding("perf/missing-weight", 4121, [nodeId |-> node.id]) >>
     ELSE <<>>)
    \o
    (IF /\ Has(node, "weight")
        /\ isRuleEnabled(cfg, "perf/high-weight")
        /\ node.weight > RateLimit(cfg, "maxNodeWeight", 100)
     THEN << Finding("perf/high-weight", 4120, [nodeId |-> node.id]) >>
     ELSE <<>>)

validateNodeList(cfg, nodes, n) ==
    CreateAll(n, Concat([ i \in 1..Len(nodes) |-> NodeFindings(cfg, nodes[i]) ]))

\* the WorkflowNode validateNodes makes of a minimal node
ToWorkflowNode(node) ==
    [ id |-> node.id,
      type |-> IF Has(node, "type") /\ node.type # "" THEN node.type ELSE "action",
      connections |-> Connections(node) ]
    @@ Opt("action", Has(node, "action"), IF Has(node, "action") THEN node.action ELSE "")
    @@ Opt("weight", Has(node, "weight"), IF Has(node, "weight") THEN node.weight ELSE 0)

\* async validateNodes(nodes): the body has no await, so it runs to its end
\* when called; the caller receives a Promise, fulfilled with `issues`.
validateNodes(cfg, nodes, n) ==
    LET workflowNodes == [ i \in 1..Len(nodes) |-> ToWorkflowNode(nodes[i]) ]
        graphIssues == validateGraphIntegrity(cfg, workflowNodes, n)
        nodeIssues == validateNodeList(cfg, workflowNodes, n + Len(graphIssues))
    IN  [ isPromise |-> TRUE,
          issues |-> filterIssues(cfg, graphIssues \o nodeIssues),
          created |-> Len(graphIssues) + Len(nodeIssues) ]

\* settings?.naming?.variableNamePattern || '^[a-zA-Z][a-zA-Z0-9_]*$'
VariableNamePattern(cfg) ==
    IF /\ Has(cfg.settings, "naming")
       /\ Has(cfg.settings.naming, "variableNamePattern")
       /\ cfg.settings.naming.variableNamePattern # ""
    THEN cfg.settings.naming.variableNamePattern
    ELSE "^[a-zA-Z][a-zA-Z0-9_]*$"

\* threw: new RegExp(pattern) raised a SyntaxError
validateVariables(cfg, variables, n) ==
    IF ~isRuleEnabled(cfg, "variable/naming-convention")
    THEN [threw |-> FALSE, issues |-> <<>>]
    ELSE IF VariableNamePattern(cfg) \in RegExpSyntaxErrors
    THEN [threw |-> TRUE, issues |-> <<>>]
    ELSE
        LET bad == SelectSeq(variables,
                       LAMBDA v : ~RegExpTest(VariableNamePattern(cfg), v.name))
        IN  [ threw |-> FALSE,
              issues |-> CreateAll(n, [ i \in 1..Len(bad) |->
                  Finding("variable/naming-convention", 3312,
                          [path |-> <<"variables", bad[i].name>>]) ]) ]

LargeWorkflowNodes == 50

\* settings?.rateLimits?.warnThreshold || 0.8
WarnThreshold(cfg) ==
    IF /\ Has(cfg.settings, "rateLimits")
       /\ Has(cfg.settings.rateLimits, "warnThreshold")
       /\ cfg.settings.rateLimits.warnThreshold.num # 0
    THEN cfg.settings.rateLimits.warnThreshold
    ELSE [num |-> 4, den |-> 5]

\* nodes.reduce((sum, node) => sum + (node.weight || 0), 0)
RECURSIVE TotalWeight(_)
TotalWeight(nodes) ==
    IF Len(nodes) = 0 THEN 0
    ELSE (IF Has(Head(nodes), "weight") THEN Head(nodes).weight ELSE 0)
         + TotalWeight(Tail(nodes))

\* overThreshold with >= for >.
overThresholdInclusive(totalWeight, maxWeight, warnThreshold) ==
    totalWeight * warnThreshold.den >= maxWeight * warnThreshold.num

\* totalWeight > maxWeight * warnThreshold, the threshold being the fraction
\* num / den
overThreshold(totalWeight, maxWeight, warnThreshold) ==
    totalWeight * warnThreshold.den > maxWeight * warnThreshold.num

validatePerformance(cfg, workflow, n) ==
    IF ~Has(workflow, "nodes") THEN <<>>
    ELSE
        LET large == IF /\ isRuleEnabled(cfg, "perf/large-workflow")
                        /\ Len(workflow.nodes) > LargeWorkflowNodes
                     THEN << Finding("perf/large-workflow", 4120, [path |-> <<"nodes">>]) >>
                     ELSE <<>>
            high == IF /\ isRuleEnabled(cfg, "perf/high-weight")
                       /\ overThreshold(TotalWeight(workflow.nodes),
                                         RateLimit(cfg, "maxWorkflowWeight", 1000),
                                         WarnThreshold(cfg))
                    THEN << Finding("perf/high-weight", 4120, [path |-> <<"nodes">>]) >>
                    ELSE <<>>
        IN  CreateAll(n, large \o high)

\* ---------------------------------------------------- permission inference
\* workflow.trigger?.event, when it is a non-empty string with a mapping
TriggerHasMapping(workflow) ==
    /\ Has(workflow, "trigger")
    /\ Has(workflow.trigger, "event")
    /\ workflow.trigger.event # ""
    /\ hasTriggerPermissionMapping(workflow.trigger.event)

\* node.type === 'action' && node.action
IsActionNode(node) ==
    /\ Has(node, "type") /\ node.type = "action"
    /\ Has(node, "action") /\ node.action # ""

\* The loop over workflow.nodes of detectAndValidatePermissions from node i
\* on.  acc: the nodes as mutated so far, the Set requiredPermissions, the
\* findings, and whether actionPerms.forEach raised a TypeError.
RECURSIVE AnnotateNodes(_, _, _)
AnnotateNodes(cfg, i, acc) ==
    IF acc.threw \/ i > Len(acc.nodes) THEN acc
    ELSE
        LET node == acc.nodes[i] IN
        IF ~IsActionNode(node) THEN AnnotateNodes(cfg, i + 1, acc)
        ELSE IF hasActionPermissionMapping(node.action)
        THEN
            LET actionPerms == TableLookup(ACTION_PERMISSION_MAPPINGS, node.action) IN
            IF ~actionPerms.isArray THEN [acc EXCEPT !.threw = TRUE]
            ELSE AnnotateNodes(cfg, i + 1,
                    [acc EXCEPT
                        !.required = SetAddAll(@, actionPerms.items),
                        !.nodes[i] = ("permissions" :> actionPerms.items) @@ node])
        ELSE AnnotateNodes(cfg, i + 1,
                [acc EXCEPT
                    !.found = IF isRuleEnabled(cfg, "security/missing-permissions")
                              THEN Append(@, Finding("security/missing-permissions", 3311,
                                                     [nodeId |-> node.id]))
                              ELSE @,
                    !.nodes[i] = ("permissions" :> <<>>) @@ node])

\* returns the issues, whether it threw, and the workflow as it left it
detectAndValidatePermissions(cfg, workflow, n) ==
    LET triggerPerms == IF TriggerHasMapping(workflow)
                        THEN TableLookup(TRIGGER_PERMISSION_MAPPINGS, workflow.trigger.event)
                        ELSE [isArray |-> TRUE, items |-> <<>>]
    IN
    IF ~triggerPerms.isArray
    THEN [threw |-> TRUE, issues |-> <<>>, created |-> 0, workflow |-> workflow]
    ELSE
        LET acc == AnnotateNodes(cfg, 1,
                       [ nodes |-> workflow.nodes,
                         required |-> SetAddAll(<<>>, triggerPerms.items),
                         found |-> <<>>,
                         threw |-> FALSE ])
        IN  [ threw |-> acc.threw,
              issues |-> IF acc.threw THEN <<>> ELSE CreateAll(n, acc.found),
              created |-> Len(acc.found),
              workflow |->
                IF acc.threw
                THEN [workflow EXCEPT !.nodes = acc.nodes]
                ELSE ("permissions" :> Sort(acc.required))
                     @@ [workflow EXCEPT !.nodes = acc.nodes] ]

\* The loop over workflow.nodes of detectRequiredPermissions.
RECURSIVE CollectNodes(_, _)
CollectNodes(nodes, acc) ==
    IF acc.threw \/ Len(nodes) = 0 THEN acc
    ELSE IF IsActionNode(Head(nodes)) /\ hasActionPermissionMapping(Head(nodes).action)
    THEN
        LET actionPerms == TableLookup(ACTION_PERMISSION_MAPPINGS, Head(nodes).action) IN
        IF ~actionPerms.isArray THEN [acc EXCEPT !.threw = TRUE]
        ELSE CollectNodes(Tail(nodes),
                          [acc EXCEPT !.required = SetAddAll(@, actionPerms.items)])
    ELSE CollectNodes(Tail(nodes), acc)

\* detectRequiredPermissions returning the Set's elements in insertion
\* order, without sort().
detectRequiredPermissionsUnsorted(workflow) ==
    LET triggerPerms == IF TriggerHasMapping(workflow)
                        THEN TableLookup(TRIGGER_PERMISSION_MAPPINGS, workflow.trigger.event)
                        ELSE [isArray |-> TRUE, items |-> <<>>]
        acc == CollectNodes(workflow.nodes,
                   [required |-> SetAddAll(<<>>, triggerPerms.items), threw |-> FALSE])
    IN
    IF ~triggerPerms.isArray \/ acc.threw
    THEN [threw |-> TRUE, value |-> <<>>, workflow |-> workflow]
    ELSE [threw |-> FALSE, value |-> acc.required, workflow |-> workflow]

\* detectRequiredPermissions storing its result in workflow.permissions, as
\* detectAndValidatePermissions does.
detectRequiredPermissionsAnnotating(workflow) ==
    LET triggerPerms == IF TriggerHasMapping(workflow)
                        THEN TableLookup(TRIGGER_PERMISSION_MAPPINGS, workflow.trigger.event)
                        ELSE [isArray |-> TRUE, items |-> <<>>]
        acc == CollectNodes(workflow.nodes,
                   [required |-> SetAddAll(<<>>, triggerPerms.items), threw |-> FALSE])
    IN
    IF ~triggerPerms.isArray \/ acc.threw
    THEN [threw |-> TRUE, value |-> <<>>, workflow |-> workflow]
    ELSE [ threw |-> FALSE, value |-> Sort(acc.required),
           workflow |-> ("permissions" :> Sort(acc.required)) @@ workflow ]

\* value: the returned array; threw: a TypeError left the function;
\* workflow: the argument as the call left it
detectRequiredPermissions(workflow) ==
    LET triggerPerms == IF TriggerHasMapping(workflow)
                        THEN TableLookup(TRIGGER_PERMISSION_MAPPINGS, workflow.trigger.event)
                        ELSE [isArray |-> TRUE, items |-> <<>>]
        acc == CollectNodes(workflow.nodes,
                   [required |-> SetAddAll(<<>>, triggerPerms.items), threw |-> FALSE])
    IN
    IF ~triggerPerms.isArray \/ acc.threw
    THEN [threw |-> TRUE, value |-> <<>>, workflow |-> workflow]
    ELSE [threw |-> FALSE, value |-> Sort(acc.required), workflow |-> workflow]

\* nodePermissions (a Map keyed by node id) and unknownActions after the
\* loop of getPermissionBreakdown over the nodes
RECURSIVE BreakdownNodes(_, _)
BreakdownNodes(nodes, acc) ==
    IF Len(nodes) = 0 THEN acc
    ELSE
        LET node == Head(nodes) IN
        IF ~IsActionNode(node) THEN BreakdownNodes(Tail(nodes), acc)
        ELSE IF hasActionPermissionMapping(node.action)
        THEN BreakdownNodes(Tail(nodes),
                [acc EXCEPT !.nodePermissions =
                    (node.id :> TableLookup(ACTION_PERMISSION_MAPPINGS, node.action).items) @@ @])
        ELSE BreakdownNodes(Tail(nodes),
                [acc EXCEPT !.nodePermissions = (node.id :> <<>>) @@ @,
                            !.unknownActions = Append(@, node.action)])

getPermissionBreakdown(workflow) ==
    LET triggerPerms == IF TriggerHasMapping(workflow)
                        THEN TableLookup(TRIGGER_PERMISSION_MAPPINGS, workflow.trigger.event)
                        ELSE [isArray |-> TRUE, items |-> <<>>]
        acc == BreakdownNodes(workflow.nodes,
                   [nodePermissions |-> Empty, unknownActions |-> <<>>])
        total == detectRequiredPermissions(workflow)
    IN
    \* push(...value) of a value that is not iterable throws
    IF ~triggerPerms.isArray \/ total.threw
    THEN [threw |-> TRUE, value |-> Empty, workflow |-> total.workflow]
    ELSE [ threw |-> FALSE,
           value |-> [ totalPermissions |-> total.value,
                       triggerPermissions |-> triggerPerms.items,
                       nodePermissions |-> acc.nodePermissions,
                       unknownActions |-> acc.unknownActions ],
           workflow |-> total.workflow ]

\* ------------------------------------------------------------ orchestrator
\* issues.push(...value): spreading a Promise, which is not iterable, throws
SpreadPush(value) ==
    IF value.isPromise THEN [threw |-> TRUE, items |-> <<>>]
    ELSE [threw |-> FALSE, items |-> value.issues]

\* The state of the try block of validateWorkflow between its steps.  threw:
\* an exception is on its way to the catch; issues: what was pushed;
\* nextIssueId: the validator's counter; workflow: the argument as left.
\* issues.push(...found); rulesExecuted += rules
PushAll(st, found, rules) ==
    [st EXCEPT !.issues = @ \o found,
               !.nextIssueId = @ + Len(found),
               !.rulesExecuted = @ + rules]

\* 1. Basic structure validation
StepStructure(cfg, st) ==
    PushAll(st, validateWorkflowStructure(cfg, st.workflow, st.nextIssueId), 4)

\* 2. Graph integrity validation
StepGraph(cfg, st) ==
    IF st.threw \/ ~Has(st.workflow, "nodes") THEN st
    ELSE IF Len(st.workflow.nodes) = 0 THEN st
    ELSE PushAll(st, validateGraphIntegrity(cfg, st.workflow.nodes, st.nextIssueId), 5)

\* issues.push(...nodeIssues); rulesExecuted += workflow.nodes.length * 3
PushNodes(st, nodeIssues) ==
    IF SpreadPush(nodeIssues).threw
    THEN [st EXCEPT !.threw = TRUE, !.nextIssueId = @ + nodeIssues.created]
    ELSE [st EXCEPT !.issues = @ \o SpreadPush(nodeIssues).items,
                    !.nextIssueId = @ + nodeIssues.created,
                    !.rulesExecuted = @ + Len(st.workflow.nodes) * 3]

\* 3. Node validation
StepNodes(cfg, st) ==
    IF st.threw \/ ~Has(st.workflow, "nodes") THEN st
    ELSE PushNodes(st, validateNodes(cfg, st.workflow.nodes, st.nextIssueId))

\* issues.push(...variableIssues); rulesExecuted += workflow.variables.length * 2
PushVariables(st, variableIssues) ==
    IF variableIssues.threw THEN [st EXCEPT !.threw = TRUE]
    ELSE PushAll(st, variableIssues.issues, Len(st.workflow.variables) * 2)

\* 4. Variable validation
StepVariables(cfg, st) ==
    IF st.threw \/ ~Has(st.workflow, "variables") THEN st
    ELSE PushVariables(st, validateVariables(cfg, st.workflow.variables, st.nextIssueId))

\* 5. Performance validation
StepPerformance(cfg, st) ==
    IF st.threw THEN st
    ELSE PushAll(st, validatePerformance(cfg, st.workflow, st.nextIssueId), 3)

\* issues.push(...permissionIssues); rulesExecuted += 1
PushPermissions(st, permissionIssues) ==
    IF permissionIssues.threw
    THEN [st EXCEPT !.threw = TRUE,
                    !.nextIssueId = @ + permissionIssues.created,
                    !.workflow = permissionIssues.workflow]
    ELSE [st EXCEPT !.issues = @ \o permissionIssues.issues,
                    !.nextIssueId = @ + permissionIssues.created,
                    !.rulesExecuted = @ + 1,
                    !.workflow = permissionIssues.workflow]

\* 6. Permission detection and validation
StepPermissions(cfg, st) ==
    IF st.threw \/ ~Has(st.workflow, "trigger") \/ ~Has(st.workflow, "nodes") THEN st
    ELSE PushPermissions(st, detectAndValidatePermissions(cfg, st.workflow, st.nextIssueId))

\* The try block of validateWorkflow, run from counter n.
TryBlock(cfg, workflow, n) ==
    StepPermissions(cfg,
      StepPerformance(cfg,
        StepVariables(cfg,
          StepNodes(cfg,
            StepGraph(cfg,
              StepStructure(cfg,
                [ threw |-> FALSE, issues |-> <<>>, nextIssueId |-> n,
                  rulesExecuted |-> 0, workflow |-> workflow ]))))))

BySeverity(issues, severity) == SelectSeq(issues, LAMBDA i : i.severity = severity)

\* workflow.id || 'unknown'
WorkflowId(workflow) ==
    IF Has(workflow, "id") /\ workflow.id # "" THEN workflow.id ELSE "unknown"

\* NormalResult with the validity flag taken from the criticals alone.
NormalResultCriticalsOnly(cfg, workflow, body) ==
    LET filteredIssues == filterIssues(cfg, body.issues)
        errors == BySeverity(filteredIssues, "error")
        warnings == BySeverity(filteredIssues, "warn")
        infos == BySeverity(filteredIssues, "info")
        criticals == BySeverity(filteredIssues, "critical")
    IN  [ workflowId |-> WorkflowId(workflow),
          isValid |-> Len(criticals) = 0,
          summary |-> [ total |-> Len(filteredIssues), errors |-> Len(errors),
                        warnings |-> Len(warnings), infos |-> Len(infos),
                        criticals |-> Len(criticals) ],
          issues |-> filteredIssues,
          errors |-> errors,
          warnings |-> warnings,
          infos |-> infos,
          criticals |-> criticals,
          fixableCount |-> Len(SelectSeq(filteredIssues, LAMBDA i : i.fixable)),
          rulesExecuted |-> body.rulesExecuted ]

\* the object the try block returns
NormalResult(cfg, workflow, body) ==
    LET filteredIssues == filterIssues(cfg, body.issues)
        errors == BySeverity(filteredIssues, "error")
        warnings == BySeverity(filteredIssues, "warn")
        infos == BySeverity(filteredIssues, "info")
        criticals == BySeverity(filteredIssues, "critical")
    IN  [ workflowId |-> WorkflowId(workflow),
          isValid |-> Len(errors) = 0 /\ Len(criticals) = 0,
          summary |-> [ total |-> Len(filteredIssues), errors |-> Len(errors),
                        warnings |-> Len(warnings), infos |-> Len(infos),
                        criticals |-> Len(criticals) ],
          issues |-> filteredIssues,
          errors |-> errors,
          warnings |-> warnings,
          infos |-> infos,
          criticals |-> criticals,
          fixableCount |-> Len(SelectSeq(filteredIssues, LAMBDA i : i.fixable)),
          rulesExecuted |-> body.rulesExecuted ]

\* the object the catch block returns; createSystemError is called twice
FallbackResult(workflow, body) ==
    [ workflowId |-> WorkflowId(workflow),
      isValid |-> FALSE,
      summary |-> [total |-> 1, errors |-> 1, warnings |-> 0, infos |-> 0, criticals |-> 0],
      issues |-> << createSystemError(body.nextIssueId) >>,
      errors |-> << createSystemError(body.nextIssueId + 1) >>,
      warnings |-> <<>>,
      infos |-> <<>>,
      criticals |-> <<>>,
      fixableCount |-> 0,
      rulesExecuted |-> body.rulesExecuted ]

\* validateWorkflow without its catch block: an exception of the try block
\* rejects the returned Promise.
validateWorkflowNoCatch(cfg, workflow, n) ==
    LET body == TryBlock(cfg, workflow, n) IN
    IF body.threw
    THEN [ settled |-> "rejected",
           value |-> Empty,
           path |-> "catch",
           nextIssueId |-> body.nextIssueId,
           workflow |-> body.workflow ]
    ELSE [ settled |-> "fulfilled",
           value |-> NormalResult(cfg, workflow, body),
           path |-> "try",
           nextIssueId |-> body.nextIssueId,
           workflow |-> body.workflow ]

\* async validateWorkflow(workflow): settled: how the returned Promise
\* settles; value: the result object; nextIssueId and workflow: the
\* validator's counter and the argument after the call.
validateWorkflow(cfg, workflow, n) ==
    LET body == TryBlock(cfg, workflow, n) IN
    IF body.threw
    THEN [ settled |-> "fulfilled",
           value |-> FallbackResult(workflow, body),
           path |-> "catch",
           nextIssueId |-> body.nextIssueId + 2,
           workflow |-> body.workflow ]
    ELSE [ settled |-> "fulfilled",
           value |-> NormalResult(cfg, workflow, body),
           path |-> "try",
           nextIssueId |-> body.nextIssueId,
           workflow |-> body.workflow ]

\* ------------------------------------------------------------------ inputs
\* The node at position i of a list carries the id NodeIdAt[i]; MissingId is
\* an id no node declares.
NodeIdAt == <<"A", "B", "C", "D">>

MissingId == "Z"

ValidVersion == <<"1", ".", "0", ".", "0">>

InvalidVersion == <<"1", ".", "0">>

GoodVariable == [name |-> <<"u", "s", "e", "r", "_", "1">>, type |-> "custom", scope |-> "guild"]

BadVariable == [name |-> <<"1", "u", "p">>, type |-> "custom", scope |-> "guild"]

\* An action node with every field the node rules look at.
CompleteNode ==
    [id |-> "A", type |-> "action", action |-> "send_message",
     connections |-> <<>>, weight |-> 10]

\* Workflows without variables that differ in the presence of the required
\* fields, with no node list, an empty one, or one action node.
FieldWorkflows ==
    { Opt("id", hasId, "wf-1") @@ Opt("name", hasName, "Welcome flow")
      @@ Opt("version", version # <<>>, version)
      @@ Opt("trigger", hasTrigger, [type |-> "event"])
      @@ Opt("nodes", nodes # <<>>, IF nodes # <<>> THEN nodes[1] ELSE <<>>) :
        hasId \in BOOLEAN, hasName \in BOOLEAN,
        version \in {<<>>, ValidVersion, InvalidVersion},
        hasTrigger \in BOOLEAN,
        \* <<>>: the property is unset; <<list>>: it holds list
        nodes \in { <<>>, << <<>> >>, << <<CompleteNode>> >> } }

\* Workflows with every required field and a list of variables, with no node
\* list or with one action node that names no action and no weight.
VariableWorkflows ==
    { [ id |-> "wf-1", name |-> "Welcome flow", version |-> version,
        trigger |-> [type |-> "event"], variables |-> variables ]
      @@ Opt("nodes", hasNodes, << [id |-> "A", type |-> "action"] >>) :
        version \in {ValidVersion, InvalidVersion},
        variables \in { <<>>, <<GoodVariable>>, <<BadVariable>>,
                        <<BadVariable, GoodVariable>> },
        hasNodes \in BOOLEAN }

StructureWorkflows == FieldWorkflows \cup VariableWorkflows

\* The connection lists of node i of m: none, to the next node (the first
\* one after the last), to itself, to a missing node, twice to missing nodes.
ConnectionShapes(i, m) ==
    { <<>>, <<NodeIdAt[(i % m) + 1]>>, <<NodeIdAt[i]>>, <<MissingId>>,
      <<MissingId, MissingId>> }

\* Complete workflows whose first node is a trigger or an action and whose
\* other nodes are send_message actions, connected by the shapes above.
GraphNodeLists ==
    UNION { { [ i \in 1..m |->
                  [ id |-> NodeIdAt[i],
                    type |-> IF i = 1 THEN first ELSE "action",
                    connections |-> conns[i], weight |-> 10 ]
                  @@ Opt("action", i > 1 \/ first = "action", "send_message") ] :
              first \in {"trigger", "action"},
              conns \in { c \in [1..m -> UNION { ConnectionShapes(i, m) : i \in 1..m }] :
                            \A i \in 1..m : c[i] \in ConnectionShapes(i, m) } } :
            m \in 1..MaxNodes }

GraphWorkflows ==
    { [ id |-> "wf-2", name |-> "Graph flow", version |-> ValidVersion,
        trigger |-> [type |-> "event", event |-> "send_message"], nodes |-> nodes ] :
      nodes \in GraphNodeLists }

\* The trigger of a permission workflow: absent, or with a mapped, an
\* unmapped, or an Object.prototype event name.
PermissionTriggers ==
    { <<>>,
      <<[type |-> "event", event |-> "send_message"]>>,
      <<[type |-> "event", event |-> "custom_event"]>>,
      <<[type |-> "event", event |-> "constructor"]>> }

\* type and action of a node of a permission workflow
PermissionNodeKinds ==
    { [type |-> "action"],
      [type |-> "action", action |-> "send_message"],
      [type |-> "action", action |-> "ban_user"],
      [type |-> "action", action |-> "unknown_action_xyz"],
      [type |-> "action", action |-> "toString"],
      [type |-> "condition", action |-> "delete_message"] }

\* Complete workflows whose nodes form a chain A -> B -> ...; annotated
\* says whether the permissions fields already hold a list.
PermissionWorkflows(annotated) ==
    UNION { { [ id |-> "wf-3", name |-> "Moderation flow", version |-> ValidVersion,
                nodes |-> [ i \in 1..m |->
                    kinds[i]
                    @@ [ id |-> NodeIdAt[i], weight |-> 10,
                         connections |-> IF i < m THEN <<NodeIdAt[i + 1]>> ELSE <<>> ]
                    @@ Opt("permissions", annotated, <<"ADMINISTRATOR">>) ] ]
              @@ Opt("trigger", trigger # <<>>, IF trigger # <<>> THEN trigger[1] ELSE Empty)
              @@ Opt("permissions", annotated, <<"ADMINISTRATOR">>) :
              kinds \in [1..m -> PermissionNodeKinds],
              trigger \in PermissionTriggers } :
            m \in 0..MaxNodes }

\* The partial configurations passed to the constructor.
StructureOverrides ==
    { Empty,
      [rules |-> ("schema/required-fields" :> "off")],
      [rules |-> ("schema/required-fields" :> "warn")],
      [rules |-> ("variable/naming-convention" :> "off")],
      [settings |-> [naming |-> [variableNamePattern |-> "["]]] }

GraphOverrides ==
    { Empty,
      [rules |-> ("graph/missing-nodes" :> "off")],
      [rules |-> ("graph/unreachable-nodes" :> "off")] }

PermissionOverrides ==
    { Empty,
      [rules |-> ("security/missing-permissions" :> "warn")],
      [rules |-> ("security/missing-permissions" :> "off")] }

\* ---------------------------------------------------------- pack aggregator
\* pack.automations || []
Automations(pack) == IF Has(pack, "automations") THEN pack.automations ELSE <<>>

\* The loop of aggregatePackPermissions over the automations left.  acc: the
\* Set allPermissions in insertion order, and whether
\* detectRequiredPermissions threw.
RECURSIVE AggregateLoop(_, _)
AggregateLoop(automations, acc) ==
    IF acc.threw \/ Len(automations) = 0 THEN acc
    ELSE IF detectRequiredPermissions(Head(automations)).threw
    THEN [acc EXCEPT !.threw = TRUE]
    ELSE AggregateLoop(Tail(automations),
            [acc EXCEPT !.allPermissions =
                SetAddAll(@, detectRequiredPermissions(Head(automations)).value)])

\* aggregatePackPermissions returning the Set's elements in insertion order,
\* without sort().
aggregatePackPermissionsUnsorted(pack) ==
    LET acc == AggregateLoop(Automations(pack), [allPermissions |-> <<>>, threw |-> FALSE])
    IN  [ threw |-> acc.threw,
          value |-> IF acc.threw THEN <<>> ELSE acc.allPermissions ]

\* value: the returned array; threw: an exception left the function
aggregatePackPermissions(pack) ==
    LET acc == AggregateLoop(Automations(pack), [allPermissions |-> <<>>, threw |-> FALSE])
    IN  [ threw |-> acc.threw,
          value |-> IF acc.threw THEN <<>> ELSE Sort(acc.allPermissions) ]

\* perms.forEach(perm => permissionUsageCount[perm] = (... || 0) + 1);
\* usage: the counts; keys: the properties in insertion order
RECURSIVE TrackUsage(_, _)
TrackUsage(perms, acc) ==
    IF Len(perms) = 0 THEN acc
    ELSE TrackUsage(Tail(perms),
            [ usage |-> (Head(perms) :>
                            (IF Head(perms) \in DOMAIN acc.usage
                             THEN acc.usage[Head(perms)] ELSE 0) + 1) @@ acc.usage,
              keys |-> SetAdd(acc.keys, Head(perms)) ])

\* The first loop of generatePermissionSummary over the automations left.
\* acc: permissionsByAutomation, permissionUsageCount (usage and keys), and
\* whether detectRequiredPermissions threw.
RECURSIVE SummaryLoop(_, _)
SummaryLoop(automations, acc) ==
    IF acc.threw \/ Len(automations) = 0 THEN acc
    ELSE IF detectRequiredPermissions(Head(automations)).threw
    THEN [acc EXCEPT !.threw = TRUE]
    ELSE SummaryLoop(Tail(automations),
            [ permissionsByAutomation |->
                  (Head(automations).id :> detectRequiredPermissions(Head(automations)).value)
                  @@ acc.permissionsByAutomation,
              permissionUsageCount |->
                  TrackUsage(detectRequiredPermissions(Head(automations)).value,
                             acc.permissionUsageCount),
              threw |-> FALSE ])

\* SummaryOf taking for shared every capability counted at least once.
SummaryOfSharedFromOne(pack, acc) ==
    [ totalPermissions |-> aggregatePackPermissions(pack).value,
      permissionsByAutomation |-> acc.permissionsByAutomation,
      sharedPermissions |->
          Sort(SelectSeq(acc.permissionUsageCount.keys,
                         LAMBDA perm : acc.permissionUsageCount.usage[perm] >= 1)),
      uniquePermissions |->
          [ automationId \in DOMAIN acc.permissionsByAutomation |->
              SelectSeq(acc.permissionsByAutomation[automationId],
                        LAMBDA perm : acc.permissionUsageCount.usage[perm] = 1) ],
      automationCount |-> Len(Automations(pack)),
      permissionCount |-> Len(aggregatePackPermissions(pack).value) ]

\* the object generatePermissionSummary builds from the loop's outcome
SummaryOf(pack, acc) ==
    [ totalPermissions |-> aggregatePackPermissions(pack).value,
      permissionsByAutomation |-> acc.permissionsByAutomation,
      sharedPermissions |->
          Sort(SelectSeq(acc.permissionUsageCount.keys,
                         LAMBDA perm : acc.permissionUsageCount.usage[perm] > 1)),
      uniquePermissions |->
          [ automationId \in DOMAIN acc.permissionsByAutomation |->
              SelectSeq(acc.permissionsByAutomation[automationId],
                        LAMBDA perm : acc.permissionUsageCount.usage[perm] = 1) ],
      automationCount |-> Len(Automations(pack)),
      permissionCount |-> Len(aggregatePackPermissions(pack).value) ]

generatePermissionSummary(pack) ==
    LET acc == SummaryLoop(Automations(pack),
                   [ permissionsByAutomation |-> Empty,
                     permissionUsageCount |-> [usage |-> Empty, keys |-> <<>>],
                     threw |-> FALSE ])
    IN  IF acc.threw THEN [threw |-> TRUE, value |-> Empty]
        ELSE [threw |-> FALSE, value |-> SummaryOf(pack, acc)]

\* ComparisonOf with the two differences taken the other way round.
ComparisonOfSwapped(permsA, permsB) ==
    [ addedPermissions |-> Sort(SelectSeq(permsA, LAMBDA p : p \notin Range(permsB))),
      removedPermissions |-> Sort(SelectSeq(permsB, LAMBDA p : p \notin Range(permsA))),
      commonPermissions |-> Sort(SelectSeq(permsA, LAMBDA p : p \in Range(permsB))),
      packATotal |-> Sort(permsA),
      packBTotal |-> Sort(permsB) ]

\* the object comparePackPermissions builds from the two aggregated lists
ComparisonOf(permsA, permsB) ==
    [ addedPermissions |-> Sort(SelectSeq(permsB, LAMBDA p : p \notin Range(permsA))),
      removedPermissions |-> Sort(SelectSeq(permsA, LAMBDA p : p \notin Range(permsB))),
      commonPermissions |-> Sort(SelectSeq(permsA, LAMBDA p : p \in Range(permsB))),
      packATotal |-> Sort(permsA),
      packBTotal |-> Sort(permsB) ]

comparePackPermissions(packA, packB) ==
    IF aggregatePackPermissions(packA).threw \/ aggregatePackPermissions(packB).threw
    THEN [threw |-> TRUE, value |-> Empty]
    ELSE [ threw |-> FALSE,
           value |-> ComparisonOf(aggregatePackPermissions(packA).value,
                                  aggregatePackPermissions(packB).value) ]

\* PERMISSION_SEVERITY[permission] || 'safe'
getPermissionSeverity(permission) ==
    IF permission \in DOMAIN PERMISSION_SEVERITY THEN PERMISSION_SEVERITY[permission]
    ELSE "safe"

\* SeverityWeight with the break of case 'dangerous' missing.
SeverityWeightFallThrough(severity) ==
    CASE severity = "dangerous" -> 10 + 3
      [] severity = "moderate" -> 3
      [] severity = "safe" -> 1
      [] OTHER -> 0

\* the switch of calculatePackPermissionWeight
SeverityWeight(severity) ==
    CASE severity = "dangerous" -> 10
      [] severity = "moderate" -> 3
      [] severity = "safe" -> 1
      [] OTHER -> 0

\* the loop of calculatePackPermissionWeight
RECURSIVE WeightOf(_)
WeightOf(permissions) ==
    IF Len(permissions) = 0 THEN 0
    ELSE SeverityWeight(getPermissionSeverity(Head(permissions)))
         + WeightOf(Tail(permissions))

calculatePackPermissionWeight(pack) ==
    IF aggregatePackPermissions(pack).threw THEN [threw |-> TRUE, value |-> 0]
    ELSE [threw |-> FALSE, value |-> WeightOf(aggregatePackPermissions(pack).value)]

getDangerousPermissions(pack) ==
    IF aggregatePackPermissions(pack).threw THEN [threw |-> TRUE, value |-> <<>>]
    ELSE [ threw |-> FALSE,
           value |-> SelectSeq(aggregatePackPermissions(pack).value,
                               LAMBDA perm : getPermissionSeverity(perm) = "dangerous") ]

\* The automations of the packs: each has one or two action nodes; the
\* first and the third carry the same id, the last names an action that is
\* a property of Object.prototype.
PackWorkflows ==
    { [ id |-> "wf-a", name |-> "Greeter", version |-> ValidVersion,
        trigger |-> [type |-> "event", event |-> "send_message"],
        nodes |-> << [id |-> "A", type |-> "action", action |-> "send_message",
                      connections |-> <<>>] >> ],
      [ id |-> "wf-b", name |-> "Ban hammer", version |-> ValidVersion,
        trigger |-> [type |-> "event", event |-> "user_join"],
        nodes |-> << [id |-> "A", type |-> "action", action |-> "ban_user",
                      connections |-> <<>>] >> ],
      [ id |-> "wf-a", name |-> "Cleaner", version |-> ValidVersion,
        trigger |-> [type |-> "event", event |-> "user_join"],
        nodes |-> << [id |-> "A", type |-> "action", action |-> "ban_user",
                      connections |-> <<"B">>],
                     [id |-> "B", type |-> "action", action |-> "delete_message",
                      connections |-> <<>>] >> ],
      [ id |-> "wf-c", name |-> "Custom", version |-> ValidVersion,
        trigger |-> [type |-> "event", event |-> "custom_event"],
        nodes |-> << [id |-> "A", type |-> "action", action |-> "unknown_action_xyz",
                      connections |-> <<>>] >> ],
      [ id |-> "wf-d", name |-> "Formatter", version |-> ValidVersion,
        trigger |-> [type |-> "event", event |-> "user_join"],
        nodes |-> << [id |-> "A", type |-> "action", action |-> "toString",
                      connections |-> <<>>] >> ] }

\* Packs without automations property and packs of up to MaxAutomations
\* automations.
Packs ==
    { [id |-> "pack-1", name |-> "Pack", version |-> ValidVersion] }
    \cup UNION { { [ id |-> "pack-1", name |-> "Pack", version |-> ValidVersion,
                     automations |-> automations ] :
                   automations \in [1..m -> PackWorkflows] } :
                 m \in 0..MaxAutomations }

\* ------------------------------------------------------------ state machine
VARIABLES
    config,         \* this.config of the validator instance
    nextIssueId,    \* this.nextIssueId
    workflow,       \* the caller's workflow object, passed to every call
    result,         \* how the last validateWorkflow call settled
    nodesResult,    \* how the last validateNodes call settled
    permissions,    \* outcome of the last detectRequiredPermissions call
    breakdown,      \* outcome of the last getPermissionBreakdown call
    lastOp,         \* the method called last
    calls,          \* number of calls made so far
    pack,           \* the pack passed to the aggregator
    otherPack,      \* the second pack of comparePackPermissions
    packResult,     \* outcome of the last aggregator call
    reachable,      \* the Set `reachable` of the graph analysis
    entryQueue,     \* ids of the entry nodes forEach has not yet passed to dfs
    callStack,      \* the active dfs calls, innermost last
    performanceIssues, \* what the last validatePerformance call returned
    props,          \* useWorkflowLinting: the nodes, edges and enabled of the last render
    lintState,      \* useWorkflowLinting: the useState values result, isLinting, lastLintTime
    debounceTimer,  \* useWorkflowLinting: debounceTimer.current, 0 for null
    timers,         \* the host's pending timeouts: id and the callback's arguments
    nextTimerId,    \* the id the next setTimeout returns
    microtasks      \* continuations of `await validateWorkflow(...)` not yet run

vars == <<config, nextIssueId, workflow, result, nodesResult, permissions,
          breakdown, lastOp, calls, pack, otherPack, packResult,
          reachable, entryQueue, callStack, performanceIssues,
          props, lintState, debounceTimer, timers, nextTimerId, microtasks>>

packVars == <<pack, otherPack, packResult>>
dfsVars == <<reachable, entryQueue, callStack>>

hookVars == <<props, lintState, debounceTimer, timers, nextTimerId, microtasks>>

\* no hook mounted
NoHook ==
    /\ props = Empty
    /\ lintState = Empty
    /\ debounceTimer = 0
    /\ timers = {}
    /\ nextTimerId = 1
    /\ microtasks = <<>>

\* no traversal under way, no performance check made and no hook mounted
NoTraversal ==
    /\ reachable = {} /\ entryQueue = <<>> /\ callStack = <<>>
    /\ performanceIssues = [state |-> "none"]
    /\ NoHook

Fresh ==
    /\ nextIssueId = 1
    /\ result = [state |-> "none"]
    /\ nodesResult = [state |-> "none"]
    /\ permissions = [state |-> "none"]
    /\ breakdown = [state |-> "none"]
    /\ lastOp = "none"
    /\ calls = 0

Init ==
    /\ \/ /\ workflow \in StructureWorkflows
          /\ \E override \in StructureOverrides : config = Constructor(override)
       \/ /\ workflow \in GraphWorkflows
          /\ \E override \in GraphOverrides : config = Constructor(override)
       \/ /\ workflow \in PermissionWorkflows(FALSE)
          /\ \E override \in PermissionOverrides : config = Constructor(override)
       \/ /\ workflow \in PermissionWorkflows(TRUE)
          /\ config = Constructor(Empty)
    /\ Fresh
    /\ pack = Empty /\ otherPack = Empty /\ packResult = [op |-> "none"]
    /\ NoTraversal

ValidateWorkflow ==
    /\ calls < MaxCalls
    /\ LET r == validateWorkflow(config, workflow, nextIssueId) IN
        /\ result' = [state |-> r.settled, path |-> r.path, value |-> r.value]
        /\ nextIssueId' = r.nextIssueId
        /\ workflow' = r.workflow
    /\ lastOp' = "validateWorkflow"
    /\ calls' = calls + 1
    /\ UNCHANGED <<config, nodesResult, permissions, breakdown>>
    /\ UNCHANGED packVars
    /\ UNCHANGED <<dfsVars, performanceIssues, hookVars>>

ValidateNodes ==
    /\ calls < MaxCalls
    /\ Has(workflow, "nodes")
    /\ LET r == validateNodes(config, workflow.nodes, nextIssueId) IN
        /\ nodesResult' = [state |-> "fulfilled", value |-> r.issues]
        /\ nextIssueId' = nextIssueId + r.created
    /\ lastOp' = "validateNodes"
    /\ calls' = calls + 1
    /\ UNCHANGED <<config, workflow, result, permissions, breakdown>>
    /\ UNCHANGED packVars
    /\ UNCHANGED <<dfsVars, performanceIssues, hookVars>>

DetectRequiredPermissions ==
    /\ calls < MaxCalls
    /\ Has(workflow, "nodes")
    /\ LET r == detectRequiredPermissions(workflow) IN
        /\ permissions' = IF r.threw THEN [state |-> "thrown"]
                          ELSE [state |-> "returned", value |-> r.value]
        /\ workflow' = r.workflow
    /\ lastOp' = "detectRequiredPermissions"
    /\ calls' = calls + 1
    /\ UNCHANGED <<config, nextIssueId, result, nodesResult, breakdown>>
    /\ UNCHANGED packVars
    /\ UNCHANGED <<dfsVars, performanceIssues, hookVars>>

GetPermissionBreakdown ==
    /\ calls < MaxCalls
    /\ Has(workflow, "nodes")
    /\ LET r == getPermissionBreakdown(workflow) IN
        /\ breakdown' = IF r.threw THEN [state |-> "thrown"]
                        ELSE [state |-> "returned", value |-> r.value]
        /\ workflow' = r.workflow
    /\ lastOp' = "getPermissionBreakdown"
    /\ calls' = calls + 1
    /\ UNCHANGED <<config, nextIssueId, result, nodesResult, permissions>>
    /\ UNCHANGED packVars
    /\ UNCHANGED <<dfsVars, performanceIssues, hookVars>>

Next ==
    \/ ValidateWorkflow
    \/ ValidateNodes
    \/ DetectRequiredPermissions
    \/ GetPermissionBreakdown

Spec == Init /\ [][Next]_vars

\* One validator with the default configuration serves one aggregator.
validatorVars == <<config, nextIssueId, workflow, result, nodesResult, permissions,
                   breakdown, lastOp, calls>>

PackInit ==
    /\ config = Constructor(Empty)
    /\ workflow = Empty
    /\ Fresh
    /\ pack \in Packs
    /\ otherPack \in Packs
    /\ packResult = [op |-> "none"]
    /\ NoTraversal

\* the outcome of an aggregator call
Outcome(op, r) ==
    [ op |-> op, state |-> IF r.threw THEN "thrown" ELSE "returned", value |-> r.value ]

AggregatePackPermissions ==
    /\ packResult' = Outcome("aggregatePackPermissions", aggregatePackPermissions(pack))
    /\ UNCHANGED <<pack, otherPack, validatorVars, dfsVars, performanceIssues, hookVars>>

GeneratePermissionSummary ==
    /\ packResult' = Outcome("generatePermissionSummary", generatePermissionSummary(pack))
    /\ UNCHANGED <<pack, otherPack, validatorVars, dfsVars, performanceIssues, hookVars>>

ComparePackPermissions ==
    /\ packResult' = Outcome("comparePackPermissions",
                             comparePackPermissions(pack, otherPack))
    /\ UNCHANGED <<pack, otherPack, validatorVars, dfsVars, performanceIssues, hookVars>>

CalculatePackPermissionWeight ==
    /\ packResult' = Outcome("calculatePackPermissionWeight",
                             calculatePackPermissionWeight(pack))
    /\ UNCHANGED <<pack, otherPack, validatorVars, dfsVars, performanceIssues, hookVars>>

GetDangerousPermissions ==
    /\ packResult' = Outcome("getDangerousPermissions", getDangerousPermissions(pack))
    /\ UNCHANGED <<pack, otherPack, validatorVars, dfsVars, performanceIssues, hookVars>>

PackNext ==
    \/ AggregatePackPermissions
    \/ GeneratePermissionSummary
    \/ ComparePackPermissions
    \/ CalculatePackPermissionWeight
    \/ GetDangerousPermissions

PackSpec == PackInit /\ [][PackNext]_vars

\* -------------------------------------------- the traversal, call by call
\* A node list with a cycle, a self-loop and a connection listed twice.
TangledNodes ==
    << [ id |-> NodeIdAt[1], type |-> "trigger",
         connections |-> <<NodeIdAt[2], NodeIdAt[2]>>, weight |-> 10 ],
       [ id |-> NodeIdAt[2], type |-> "action", action |-> "send_message",
         connections |-> <<NodeIdAt[1], NodeIdAt[2]>>, weight |-> 10 ] >>

TraversalWorkflows ==
    GraphWorkflows \cup
    { [ id |-> "wf-2", name |-> "Graph flow", version |-> ValidVersion,
        trigger |-> [type |-> "event", event |-> "send_message"],
        nodes |-> TangledNodes ] }

\* adjacencyList.get(nodeId) || []
NeighboursOf(adjacencyList, nodeId) ==
    IF nodeId \in DOMAIN adjacencyList THEN adjacencyList[nodeId] ELSE <<>>

\* dfsCall without `if (reachable.has(nodeId)) return`.
dfsCallUnguarded(adjacencyList, nodeId, seen, stack) ==
    [ reachable |-> seen \cup {nodeId},
      callStack |-> Append(stack, [ nodeId |-> nodeId,
                                    rest |-> NeighboursOf(adjacencyList, nodeId) ]) ]

\* one call dfs(nodeId) up to the start of its for loop: it returns at once
\* for a node in `reachable`, and otherwise adds the node and starts to
\* iterate over its connections
dfsCall(adjacencyList, nodeId, seen, stack) ==
    IF nodeId \in seen
    THEN [ reachable |-> seen, callStack |-> stack ]
    ELSE [ reachable |-> seen \cup {nodeId},
           callStack |-> Append(stack, [ nodeId |-> nodeId,
                                         rest |-> NeighboursOf(adjacencyList, nodeId) ]) ]

\* The state at `entryNodes.forEach(node => dfs(node.id))` of a graph
\* analysis with rule graph/unreachable-nodes enabled.
DfsInit ==
    /\ workflow \in TraversalWorkflows
    /\ \E override \in GraphOverrides :
        /\ config = Constructor(override)
        /\ isRuleEnabled(config, "graph/unreachable-nodes")
    /\ Fresh
    /\ pack = Empty /\ otherPack = Empty /\ packResult = [op |-> "none"]
    /\ reachable = {}
    /\ callStack = <<>>
    /\ performanceIssues = [state |-> "none"]
    /\ NoHook
    /\ LET graph == GraphOf(config, workflow.nodes)
           entryNodes == entryNodesOf(workflow.nodes, graph)
       IN  entryQueue = [ i \in 1..Len(entryNodes) |-> entryNodes[i].id ]

\* forEach calls dfs on the next entry node
DfsEntry ==
    /\ callStack = <<>>
    /\ Len(entryQueue) > 0
    /\ LET r == dfsCall(GraphOf(config, workflow.nodes).adjacencyList,
                        Head(entryQueue), reachable, callStack) IN
        /\ reachable' = r.reachable
        /\ callStack' = r.callStack
    /\ entryQueue' = Tail(entryQueue)
    /\ UNCHANGED <<validatorVars, packVars, performanceIssues, hookVars>>

\* the for loop of the innermost call calls dfs on its next connection
DfsConnected ==
    /\ Len(callStack) > 0
    /\ Len(callStack[Len(callStack)].rest) > 0
    /\ LET top == callStack[Len(callStack)]
           r == dfsCall(GraphOf(config, workflow.nodes).adjacencyList,
                        Head(top.rest), reachable,
                        [callStack EXCEPT ![Len(callStack)].rest = Tail(top.rest)]) IN
        /\ reachable' = r.reachable
        /\ callStack' = r.callStack
    /\ UNCHANGED <<entryQueue, validatorVars, packVars, performanceIssues, hookVars>>

\* the for loop of the innermost call is over and the call returns
DfsReturn ==
    /\ Len(callStack) > 0
    /\ Len(callStack[Len(callStack)].rest) = 0
    /\ callStack' = SubSeq(callStack, 1, Len(callStack) - 1)
    /\ UNCHANGED <<reachable, entryQueue, validatorVars, packVars, performanceIssues, hookVars>>

DfsNext ==
    \/ DfsEntry
    \/ DfsConnected
    \/ DfsReturn

\* The traversal is synchronous code: once started it runs on until forEach
\* returns.
DfsSpec == DfsInit /\ [][DfsNext]_vars /\ WF_vars(DfsNext)

\* ------------------------------------------------ the performance check
\* weight of a node of a weighed workflow: unset, or a number
NodeWeights == { <<>>, <<400>>, <<800>>, <<801>> }

\* Workflows without a node list or with action nodes of these weights.
WeightWorkflows ==
    { [ id |-> "wf-5", name |-> "Heavy flow", version |-> ValidVersion,
        trigger |-> [type |-> "event", event |-> "send_message"] ] }
    \cup
    UNION { { [ id |-> "wf-5", name |-> "Heavy flow", version |-> ValidVersion,
                trigger |-> [type |-> "event", event |-> "send_message"],
                nodes |-> [ i \in 1..m |->
                    [ id |-> NodeIdAt[i], type |-> "action", action |-> "send_message",
                      connections |-> <<>> ]
                    @@ Opt("weight", weights[i] # <<>>,
                           IF weights[i] # <<>> THEN weights[i][1] ELSE 0) ] ] :
              weights \in [1..m -> NodeWeights] } :
            m \in 0..MaxNodes }

PerformanceOverrides ==
    { Empty,
      [rules |-> ("perf/high-weight" :> "off")],
      [settings |-> [rateLimits |-> [maxWorkflowWeight |-> 500]]],
      [settings |-> [rateLimits |-> [maxWorkflowWeight |-> 0, maxNodeWeight |-> 0,
                                     warnThreshold |-> [num |-> 1, den |-> 2]]]] }

PerformanceInit ==
    /\ workflow \in WeightWorkflows
    /\ \E override \in PerformanceOverrides : config = Constructor(override)
    /\ Fresh
    /\ pack = Empty /\ otherPack = Empty /\ packResult = [op |-> "none"]
    /\ NoTraversal

\* step 5 of the pipeline on its own: this.validatePerformance(workflow)
ValidatePerformance ==
    /\ calls < MaxCalls
    /\ LET issues == validatePerformance(config, workflow, nextIssueId) IN
        /\ performanceIssues' = [state |-> "returned", value |-> issues]
        /\ nextIssueId' = nextIssueId + Len(issues)
    /\ lastOp' = "validatePerformance"
    /\ calls' = calls + 1
    /\ UNCHANGED <<config, workflow, result, nodesResult, permissions, breakdown>>
    /\ UNCHANGED <<packVars, dfsVars, hookVars>>

PerformanceSpec == PerformanceInit /\ [][ValidatePerformance]_vars

\* ------------------------------------------------ the useWorkflowLinting hook
MaxTimers == 4

\* a trigger node and an action node as React Flow nodes
FlowNodes ==
    << [id |-> NodeIdAt[1], data |-> [type |-> "trigger"]],
       [id |-> NodeIdAt[2],
        data |-> [type |-> "action", action |-> "send_message", weight |-> 10]] >>

\* React Flow nodes and edges the editor passes to the hook: an empty
\* canvas, the trigger node, both nodes, and both nodes with an edge.
FlowVersions ==
    { [ nodes |-> <<>>, edges |-> <<>> ],
      [ nodes |-> SubSeq(FlowNodes, 1, 1), edges |-> <<>> ],
      [ nodes |-> FlowNodes, edges |-> <<>> ],
      [ nodes |-> FlowNodes,
        edges |-> << [id |-> "e1", source |-> NodeIdAt[1], target |-> NodeIdAt[2]] >> ] }

\* edges.filter(edge => edge.source === node.id).map(edge => edge.target)
TargetsOf(edges, nodeId) ==
    LET out == SelectSeq(edges, LAMBDA edge : edge.source = nodeId)
    IN  [ k \in 1..Len(out) |-> out[k].target ]

createWorkflowFromReactFlow(nodes, edges) ==
    [ id |-> "temp-workflow",
      name |-> "Temporary Workflow",
      version |-> ValidVersion,
      trigger |-> [type |-> "event", event |-> "messageCreate"],
      nodes |-> [ i \in 1..Len(nodes) |->
          [ id |-> nodes[i].id,
            type |-> IF Has(nodes[i].data, "type") /\ nodes[i].data.type # ""
                     THEN nodes[i].data.type ELSE "action",
            connections |-> TargetsOf(edges, nodes[i].id) ]
          @@ Opt("action", Has(nodes[i].data, "action"),
                 IF Has(nodes[i].data, "action") THEN nodes[i].data.action ELSE "")
          @@ Opt("weight", Has(nodes[i].data, "weight"),
                 IF Has(nodes[i].data, "weight") THEN nodes[i].data.weight ELSE 0) ] ]

\* clearTimeout(id) on the host's table of pending timeouts
clearTimeout(pending, id) == { t \in pending : t.id # id }

\* `if (debounceTimer.current) clearTimeout(debounceTimer.current)`
ClearDebounce(h) ==
    IF h.debounceTimer # 0
    THEN [h EXCEPT !.timers = clearTimeout(@, h.debounceTimer)]
    ELSE h

\* debouncedLint(nodes, edges) called by an effect whose lintWorkflow closure
\* holds `enabled`; h is the timer table, the ref and the next timer id
debouncedLint(enabled, nodes, edges, h) ==
    LET cleared == ClearDebounce(h) IN
    [ timers |-> cleared.timers \cup
                   { [ id |-> h.nextTimerId, enabled |-> enabled,
                       nodes |-> nodes, edges |-> edges ] },
      debounceTimer |-> h.nextTimerId,
      nextTimerId |-> h.nextTimerId + 1 ]

\* The effect returning no cleanup function.
EffectCleanupNone(before, h) == h

\* the cleanup function of the effect of the render before: the effect
\* returned one when it reached debouncedLint
EffectCleanup(before, h) ==
    IF before.enabled /\ Len(before.nodes) > 0 THEN ClearDebounce(h) ELSE h

\* the body of the effect for the props p
EffectBody(p, st, h) ==
    IF ~p.enabled \/ Len(p.nodes) = 0
    THEN [ lintState |-> [st EXCEPT !.result = <<>>, !.lastLintTime = FALSE], h |-> h ]
    ELSE [ lintState |-> st, h |-> debouncedLint(p.enabled, p.nodes, p.edges, h) ]

\* lintWorkflow up to its await: the validator of the render, made from the
\* default configuration, validates the converted workflow, and the rest of
\* the function waits in the microtask queue
lintWorkflow(enabled, workflowNodes, workflowEdges, st, queue) ==
    IF ~enabled THEN [ lintState |-> st, microtasks |-> queue ]
    ELSE [ lintState |-> [st EXCEPT !.isLinting = TRUE],
           microtasks |-> Append(queue,
               [ nodes |-> workflowNodes, edges |-> workflowEdges,
                 lintResult |-> validateWorkflow(
                     Constructor(Empty),
                     createWorkflowFromReactFlow(workflowNodes, workflowEdges), 1) ]) ]

\* The hook after its first render and effect.  The stored result is kept
\* together with the nodes and edges it was computed for.
HookInit ==
    /\ config = Constructor(Empty)
    /\ workflow = Empty
    /\ Fresh
    /\ pack = Empty /\ otherPack = Empty /\ packResult = [op |-> "none"]
    /\ reachable = {} /\ entryQueue = <<>> /\ callStack = <<>>
    /\ performanceIssues = [state |-> "none"]
    /\ microtasks = <<>>
    /\ \E flow \in FlowVersions, enabled \in BOOLEAN :
        LET p == [nodes |-> flow.nodes, edges |-> flow.edges, enabled |-> enabled]
            mounted == EffectBody(p,
                           [result |-> <<>>, isLinting |-> FALSE, lastLintTime |-> FALSE],
                           [timers |-> {}, debounceTimer |-> 0, nextTimerId |-> 1])
        IN  /\ props = p
            /\ lintState = mounted.lintState
            /\ timers = mounted.h.timers
            /\ debounceTimer = mounted.h.debounceTimer
            /\ nextTimerId = mounted.h.nextTimerId

\* a render with new props whose effect dependencies changed: the cleanup of
\* the effect before, then the effect
Render(p) ==
    /\ microtasks = <<>>
    /\ nextTimerId <= MaxTimers
    /\ LET h == [timers |-> timers, debounceTimer |-> debounceTimer,
                 nextTimerId |-> nextTimerId]
           r == EffectBody(p, lintState, EffectCleanup(props, h))
       IN  /\ props' = p
           /\ lintState' = r.lintState
           /\ timers' = r.h.timers
           /\ debounceTimer' = r.h.debounceTimer
           /\ nextTimerId' = r.h.nextTimerId
    /\ UNCHANGED <<microtasks, validatorVars, packVars, dfsVars, performanceIssues>>

\* the editor passes other nodes and edges
ChangeFlow ==
    \E flow \in FlowVersions :
        /\ <<flow.nodes, flow.edges>> # <<props.nodes, props.edges>>
        /\ Render([props EXCEPT !.nodes = flow.nodes, !.edges = flow.edges])

\* the caller switches the option `enabled`
SetEnabled == Render([props EXCEPT !.enabled = ~@])

\* a pending timeout fires: () => lintWorkflow(workflowNodes, workflowEdges)
TimerFires ==
    \E t \in timers :
        /\ microtasks = <<>>
        /\ timers' = timers \ {t}
        /\ LET r == lintWorkflow(t.enabled, t.nodes, t.edges, lintState, microtasks) IN
            /\ lintState' = r.lintState
            /\ microtasks' = r.microtasks
        /\ UNCHANGED <<props, debounceTimer, nextTimerId>>
        /\ UNCHANGED <<validatorVars, packVars, dfsVars, performanceIssues>>

\* triggerLint()
TriggerLint ==
    /\ microtasks = <<>>
    /\ timers' = ClearDebounce([timers |-> timers, debounceTimer |-> debounceTimer,
                                nextTimerId |-> nextTimerId]).timers
    /\ LET r == lintWorkflow(props.enabled, props.nodes, props.edges,
                             lintState, microtasks) IN
        /\ lintState' = r.lintState
        /\ microtasks' = r.microtasks
    /\ UNCHANGED <<props, debounceTimer, nextTimerId>>
    /\ UNCHANGED <<validatorVars, packVars, dfsVars, performanceIssues>>

\* lintWorkflow after its await: setResult, setLastLintTime, and
\* setIsLinting(false) in the finally block
LintSettles ==
    /\ Len(microtasks) > 0
    /\ LET m == Head(microtasks) IN
        lintState' =
            [ result |-> << [ nodes |-> m.nodes, edges |-> m.edges,
                              value |-> IF m.lintResult.settled = "fulfilled"
                                        THEN m.lintResult.value
                                        ELSE [workflowId |-> "error", isValid |-> FALSE] ] >>,
              isLinting |-> FALSE,
              lastLintTime |-> m.lintResult.settled = "fulfilled" \/ lintState.lastLintTime ]
    /\ microtasks' = Tail(microtasks)
    /\ UNCHANGED <<props, debounceTimer, timers, nextTimerId>>
    /\ UNCHANGED <<validatorVars, packVars, dfsVars, performanceIssues>>

HookNext ==
    \/ ChangeFlow
    \/ SetEnabled
    \/ TimerFires
    \/ TriggerLint
    \/ LintSettles

HookSpec == HookInit /\ [][HookNext]_vars

\* ================================================================== claims
\* number of issues of a list that satisfy P
Count(issues, P(_)) == Len(SelectSeq(issues, P))

\* the last validateWorkflow call returned a result object
Returned == result.state = "fulfilled"

\* C1: the result of validateWorkflow has isValid = TRUE exactly when its
\* issue list holds no issue of severity error or critical, on the normal
\* path and on the fallback path.
C1_IsValidIffNoErrors ==
    Returned =>
        ( result.value.isValid
          <=> \A i \in 1..Len(result.value.issues) :
                 result.value.issues[i].severity \notin {"error", "critical"} )

\* a result of the normal path that reports at least one issue
C1_Witness ==
    /\ Returned
    /\ result.path = "try"
    /\ Len(result.value.issues) >= 1
    /\ ~result.value.isValid

\* nodes reachable from the nodes of kind trigger along connections
RECURSIVE ReachFrom(_, _)
ReachFrom(nodes, seen) ==
    LET more == { t \in { nodes[j].id : j \in 1..Len(nodes) } :
                    \E i \in 1..Len(nodes) :
                        nodes[i].id \in seen /\ t \in Range(Connections(nodes[i])) }
    IN  IF more \subseteq seen THEN seen ELSE ReachFrom(nodes, seen \cup more)

\* the well-formed workflows of C2
WellFormed(w) ==
    /\ \A f \in Range(requiredFields) : ~FieldMissing(w, f)
    /\ semverPattern(w.version)
    /\ Has(w, "nodes") /\ Len(w.nodes) > 0
    /\ ~Has(w, "variables")
    /\ \A i \in 1..Len(w.nodes) :
        LET node == w.nodes[i] IN
        /\ Range(Connections(node)) \subseteq { w.nodes[j].id : j \in 1..Len(w.nodes) }
        /\ node.id \in ReachFrom(w.nodes,
              { w.nodes[j].id : j \in { k \in 1..Len(w.nodes) : w.nodes[k].type = "trigger" } })
        /\ node.type = "action" =>
              /\ Has(node, "action") /\ node.action \in DOMAIN ACTION_PERMISSION_MAPPINGS
        /\ Has(node, "weight") /\ node.weight <= 100
    /\ TotalWeight(w.nodes) <= 800

\* C2: under the default configuration validateWorkflow returns isValid =
\* TRUE and an empty issue list for a well-formed workflow.
C2_WellFormedIsValid ==
    ( /\ Returned
      /\ config = Constructor(Empty)
      /\ WellFormed(workflow) )
    => /\ result.value.isValid
       /\ result.value.issues = <<>>

\* C3: validateWorkflow never rejects; when a step of the pipeline throws,
\* the result has isValid = FALSE and exactly one issue, SYS-5510 of
\* severity error, with summary total = 1 and errors = 1.
C3_NeverThrows ==
    /\ result.state # "rejected"
    /\ (Returned /\ result.path = "catch") =>
        /\ ~result.value.isValid
        /\ Len(result.value.issues) = 1
        /\ result.value.issues[1].errorCode = <<"SYS", 5510>>
        /\ result.value.issues[1].severity = "error"
        /\ result.value.summary.total = 1
        /\ result.value.summary.errors = 1

\* the variable-name pattern does not compile and the fallback result is
\* returned for a workflow without node list
C3_Witness ==
    /\ Returned
    /\ result.path = "catch"
    /\ ~Has(workflow, "nodes")
    /\ Has(workflow, "variables")
    /\ VariableNamePattern(config) \in RegExpSyntaxErrors

\* the issues of rule `ruleId` located at node `nodeId`
AtNode(issues, ruleId, nodeId) ==
    SelectSeq(issues, LAMBDA i :
        /\ i.ruleId = ruleId
        /\ Has(i.location, "nodeId")
        /\ i.location.nodeId = nodeId)

\* an action node whose action type is not a key of the action table
UnmappedAction(node) ==
    IsActionNode(node) /\ node.action \notin DOMAIN ACTION_PERMISSION_MAPPINGS

\* C4: with security/missing-permissions enabled, the result for a workflow
\* with a trigger and a node list holds exactly one
\* security/missing-permissions issue, AUT-3311, at every action node whose
\* action type has no entry in the action table, and none at any other node.
C4_MissingPermissionIssues ==
    ( /\ Returned
      /\ isRuleEnabled(config, "security/missing-permissions")
      /\ Has(workflow, "trigger") /\ Has(workflow, "nodes") )
    => \A i \in 1..Len(workflow.nodes) :
        LET at == AtNode(result.value.issues, "security/missing-permissions",
                         workflow.nodes[i].id)
        IN  /\ Len(at) = IF UnmappedAction(workflow.nodes[i]) THEN 1 ELSE 0
            /\ \A k \in 1..Len(at) : at[k].errorCode = <<"AUT", 3311>>

\* C5: after validateWorkflow on a workflow with trigger and node list,
\* workflow.permissions equals detectRequiredPermissions(workflow) and
\* every action node with an action type carries that action's capability
\* list, the empty list when the action is unmapped.
C5_WorkflowAnnotated ==
    ( /\ Returned
      /\ Has(workflow, "trigger") /\ Has(workflow, "nodes") )
    => /\ Has(workflow, "permissions")
       /\ workflow.permissions = detectRequiredPermissions(workflow).value
       /\ \A i \in 1..Len(workflow.nodes) :
            LET node == workflow.nodes[i] IN
            IsActionNode(node) =>
                /\ Has(node, "permissions")
                /\ node.permissions =
                     IF node.action \in DOMAIN ACTION_PERMISSION_MAPPINGS
                     THEN ACTION_PERMISSION_MAPPINGS[node.action]
                     ELSE <<>>

\* C6: the list detectRequiredPermissions returns is in ascending
\* lexicographic order and holds no capability twice.
C6_SortedNoDuplicates ==
    permissions.state = "returned" =>
        /\ \A i \in 1..(Len(permissions.value) - 1) :
             StrLess(permissions.value[i], permissions.value[i + 1])
        /\ \A i, j \in 1..Len(permissions.value) :
             i # j => permissions.value[i] # permissions.value[j]

\* the trigger and two action nodes share a capability, and the capabilities
\* are met in an order that is not the sorted one
C6_Witness ==
    /\ permissions.state = "returned"
    /\ Len(permissions.value) = 3
    /\ TriggerHasMapping(workflow)
    /\ Len(workflow.nodes) = 2
    /\ workflow.nodes[1].type = "action" /\ Has(workflow.nodes[1], "action")
    /\ workflow.nodes[1].action = "send_message"
    /\ workflow.nodes[2].type = "action" /\ Has(workflow.nodes[2], "action")
    /\ workflow.nodes[2].action = "ban_user"

\* the union C7 describes: the trigger table's entry for the event and the
\* action table's entries for the action nodes
ExpectedPermissions(w) ==
    ( IF /\ Has(w, "trigger") /\ Has(w.trigger, "event")
         /\ w.trigger.event \in DOMAIN TRIGGER_PERMISSION_MAPPINGS
      THEN Range(TRIGGER_PERMISSION_MAPPINGS[w.trigger.event]) ELSE {} )
    \cup UNION { Range(ACTION_PERMISSION_MAPPINGS[w.nodes[i].action]) :
                 i \in { k \in 1..Len(w.nodes) :
                           /\ IsActionNode(w.nodes[k])
                           /\ w.nodes[k].action \in DOMAIN ACTION_PERMISSION_MAPPINGS } }

\* C7: detectRequiredPermissions returns exactly the union of the trigger's
\* mapped capabilities and those of the mapped action nodes; other nodes
\* and unmapped actions add nothing and stop nothing.
C7_ExactUnion ==
    lastOp = "detectRequiredPermissions" =>
        /\ permissions.state = "returned"
        /\ Range(permissions.value) = ExpectedPermissions(workflow)

\* C8: detectRequiredPermissions and getPermissionBreakdown leave the
\* workflow as it was, and a second detectRequiredPermissions call right
\* after the first returns the same list.
C8_QueriesReadOnly ==
    [][ /\ lastOp' \in {"detectRequiredPermissions", "getPermissionBreakdown"}
            => workflow' = workflow
        /\ (lastOp = "detectRequiredPermissions" /\ lastOp' = "detectRequiredPermissions")
            => permissions' = permissions ]_vars

\* two detectRequiredPermissions calls in a row on a workflow whose
\* permissions field holds a list different from the one returned
C8_Witness ==
    /\ calls = 2
    /\ lastOp = "detectRequiredPermissions"
    /\ result.state = "none" /\ nodesResult.state = "none" /\ breakdown.state = "none"
    /\ permissions.state = "returned"
    /\ Len(permissions.value) >= 2
    /\ Has(workflow, "permissions")
    /\ workflow.permissions # permissions.value

\* C9: with schema/required-fields enabled the result holds exactly one
\* schema/required-fields issue, SYS-5511 of severity error at the field's
\* path, for each of id, name, version, trigger that is absent, none for a
\* field that is present, and isValid is FALSE when one is absent.
C9_OneIssuePerMissingField ==
    ( /\ Returned
      /\ isRuleEnabled(config, "schema/required-fields") )
    => /\ \A f \in Range(requiredFields) :
            Count(result.value.issues, LAMBDA i :
                /\ i.ruleId = "schema/required-fields"
                /\ Has(i.location, "path") /\ i.location.path = <<f>>
                /\ i.errorCode = <<"SYS", 5511>>
                /\ i.severity = "error")
            = IF Has(workflow, f) THEN 0 ELSE 1
       /\ Count(result.value.issues, LAMBDA i : i.ruleId = "schema/required-fields")
            = Cardinality({ f \in Range(requiredFields) : ~Has(workflow, f) })
       /\ (\E f \in Range(requiredFields) : ~Has(workflow, f)) => ~result.value.isValid

\* the connections of a node to ids no node declares
Dangling(nodes, node) ==
    SelectSeq(Connections(node),
              LAMBDA t : t \notin { nodes[j].id : j \in 1..Len(nodes) })

\* C10: the result holds exactly one graph/missing-nodes issue per dangling
\* edge, at its source node, and a dangling edge makes no node unreachable:
\* trigger A -> B -> missing C gives one graph/missing-nodes at B and no
\* graph/unreachable-nodes.
C10_OneIssuePerDanglingEdge ==
    ( /\ Returned
      /\ isRuleEnabled(config, "graph/missing-nodes")
      /\ Has(workflow, "nodes") )
    => /\ \A i \in 1..Len(workflow.nodes) :
            Len(AtNode(result.value.issues, "graph/missing-nodes", workflow.nodes[i].id))
            = Len(Dangling(workflow.nodes, workflow.nodes[i]))
       /\ ( /\ Len(workflow.nodes) = 2
            /\ workflow.nodes[1].type = "trigger"
            /\ Connections(workflow.nodes[1]) = <<workflow.nodes[2].id>>
            /\ Connections(workflow.nodes[2]) = <<MissingId>> )
          => Count(result.value.issues,
                   LAMBDA i : i.ruleId = "graph/unreachable-nodes") = 0

\* the last call was validateNodes, which returns the issues of the graph
\* analysis and of the node rules after filtering
NodesReturned == lastOp = "validateNodes" /\ nodesResult.state = "fulfilled"

\* node i is an entry point: of kind trigger, or no connection of any node
\* names it
EntryPoint(nodes, i) ==
    \/ ToWorkflowNode(nodes[i]).type = "trigger"
    \/ \A j \in 1..Len(nodes) : nodes[i].id \notin Range(Connections(nodes[j]))

\* C11: the graph analysis never emits a graph/unreachable-nodes issue for
\* a node that is an entry point (a trigger node or a node with no incoming
\* edge).
C11_EntryPointsNeverUnreachable ==
    NodesReturned =>
        \A i \in 1..Len(workflow.nodes) :
            EntryPoint(workflow.nodes, i) =>
                Len(AtNode(nodesResult.value, "graph/unreachable-nodes",
                           workflow.nodes[i].id)) = 0

\* an action node without incoming edge next to a node reported unreachable
C11_Witness ==
    /\ NodesReturned
    /\ \E i \in 1..Len(workflow.nodes) :
        /\ workflow.nodes[i].type = "action"
        /\ EntryPoint(workflow.nodes, i)
    /\ Count(nodesResult.value, LAMBDA i : i.ruleId = "graph/unreachable-nodes") >= 1

\* the level of a rule in the merged rule table; "absent" when it has none
LevelOf(cfg, ruleId) ==
    IF ruleId \in DOMAIN cfg.rules THEN cfg.rules[ruleId] ELSE "absent"

OfRule(issues, ruleId) ==
    LET own == SelectSeq(issues, LAMBDA i : i.ruleId = ruleId)
    IN  [ k \in 1..Len(own) |->
            [ errorCode |-> own[k].errorCode, severity |-> own[k].severity,
              location |-> own[k].location ] ]

\* C13: whether the issues of a rule R are reported depends on the level of
\* R alone: the first validateWorkflow call of a validator whose
\* configuration differs from this one only in the level of another rule R'
\* returns, for the same workflow, the same issues of rule R.
C13_GatingIsPerRule ==
    ( /\ Returned
      /\ lastOp = "validateWorkflow"
      /\ calls = 1 )
    => \A other \in DOMAIN config.rules : \A level \in {"off", "warn", "error"} :
        LET alt == validateWorkflow([config EXCEPT !.rules[other] = level], workflow, 1)
        IN  \A rule \in DOMAIN config.rules \ {other} :
                OfRule(alt.value.issues, rule) = OfRule(result.value.issues, rule)

\* the list is in ascending order and holds no element twice
StrictlyAscending(list) ==
    \A i \in 1..(Len(list) - 1) : StrLess(list[i], list[i + 1])

\* the last aggregator call was `op` and it returned
PackReturned(op) == packResult.op = op /\ packResult.state = "returned"

\* detectRequiredPermissions returns for every automation of the pack
AllDetected(p) ==
    \A i \in 1..Len(Automations(p)) : ~detectRequiredPermissions(Automations(p)[i]).threw

\* the capabilities detectRequiredPermissions finds for the automations
DetectedUnion(p) ==
    UNION { Range(detectRequiredPermissions(Automations(p)[i]).value) :
            i \in 1..Len(Automations(p)) }

\* C14: aggregatePackPermissions(pack) is the sorted, duplicate-free union
\* of detectRequiredPermissions over the automations of the pack (it returns
\* exactly when every one of these calls returns); without automations the
\* list is empty.
C14_AggregateIsSortedUnion ==
    packResult.op = "aggregatePackPermissions" =>
        /\ packResult.state = "returned" <=> AllDetected(pack)
        /\ packResult.state = "returned" =>
            /\ Range(packResult.value) = DetectedUnion(pack)
            /\ StrictlyAscending(packResult.value)
            /\ Automations(pack) = <<>> => packResult.value = <<>>

\* two automations that share BAN_MEMBERS and whose capabilities are met in
\* an order that is not the sorted one
C14_Witness ==
    /\ PackReturned("aggregatePackPermissions")
    /\ Len(Automations(pack)) = 2
    /\ pack.automations[1].name = "Greeter"
    /\ pack.automations[2].name = "Cleaner"
    /\ packResult.value = <<"BAN_MEMBERS", "MANAGE_MESSAGES", "SEND_MESSAGES", "VIEW_CHANNEL">>

\* the capabilities automation i of the pack requires
RequiredBy(p, i) == Range(detectRequiredPermissions(Automations(p)[i]).value)

\* the capabilities two or more automations of the pack require
SharedCaps(p) ==
    { c \in DetectedUnion(p) :
        \E i, j \in 1..Len(Automations(p)) :
            i # j /\ c \in RequiredBy(p, i) /\ c \in RequiredBy(p, j) }

\* the capabilities of automation i that no other automation requires
UniqueCaps(p, i) ==
    { c \in RequiredBy(p, i) :
        \A j \in 1..Len(Automations(p)) : j # i => c \notin RequiredBy(p, j) }

\* what C15 says of sharedPermissions
SharedAsClaimed ==
    /\ Range(packResult.value.sharedPermissions) = SharedCaps(pack)
    /\ StrictlyAscending(packResult.value.sharedPermissions)
    /\ Len(Automations(pack)) = 1 => packResult.value.sharedPermissions = <<>>

C16_CompareIsSetAlgebra ==
    PackReturned("comparePackPermissions") =>
        LET totalA == aggregatePackPermissions(pack).value
            totalB == aggregatePackPermissions(otherPack).value
            added == packResult.value.addedPermissions
            removed == packResult.value.removedPermissions
            common == packResult.value.commonPermissions
        IN  /\ Range(added) = Range(totalB) \ Range(totalA)
            /\ Range(removed) = Range(totalA) \ Range(totalB)
            /\ Range(common) = Range(totalA) \cap Range(totalB)
            /\ StrictlyAscending(added)
            /\ StrictlyAscending(removed)
            /\ StrictlyAscending(common)
            /\ packResult.value.packATotal = totalA
            /\ packResult.value.packBTotal = totalB
            /\ Range(added) \cap Range(removed) = {}
            /\ Range(added) \cap Range(common) = {}
            /\ Range(removed) \cap Range(common) = {}
            /\ Range(added) \cup Range(common) = Range(packResult.value.packBTotal)
            /\ Range(removed) \cup Range(common) = Range(packResult.value.packATotal)
            /\ pack = otherPack => added = <<>> /\ removed = <<>>

\* two different packs with capabilities added, removed and in common
C16_Witness ==
    /\ PackReturned("comparePackPermissions")
    /\ Len(packResult.value.addedPermissions) >= 2
    /\ Len(packResult.value.removedPermissions) >= 1
    /\ Len(packResult.value.commonPermissions) >= 1

\* the capabilities of severity `severity` among those the pack requires
OfSeverity(p, severity) ==
    { c \in DetectedUnion(p) :
        c \in DOMAIN PERMISSION_SEVERITY /\ PERMISSION_SEVERITY[c] = severity }

\* C17: calculatePackPermissionWeight is 10 per dangerous, 3 per moderate
\* and 1 per safe capability of the aggregated set, each capability counted
\* once; a pack that needs no capability scores 0, one that needs only
\* BAN_MEMBERS scores 10.
C17_WeightBySeverity ==
    PackReturned("calculatePackPermissionWeight") =>
        /\ packResult.value = 10 * Cardinality(OfSeverity(pack, "dangerous"))
                              + 3 * Cardinality(OfSeverity(pack, "moderate"))
                              + Cardinality(OfSeverity(pack, "safe"))
        /\ DetectedUnion(pack) = {} => packResult.value = 0
        /\ DetectedUnion(pack) = {"BAN_MEMBERS"} => packResult.value = 10

\* two workflows both need BAN_MEMBERS; one more moderate and one more safe
\* capability are needed
C17_Witness ==
    /\ PackReturned("calculatePackPermissionWeight")
    /\ Len(Automations(pack)) = 2
    /\ "BAN_MEMBERS" \in RequiredBy(pack, 1) \cap RequiredBy(pack, 2)
    /\ packResult.value = 14

\* the variable/naming-convention issues located at the variable `name`
AtVariable(issues, name) ==
    SelectSeq(issues, LAMBDA i :
        /\ i.ruleId = "variable/naming-convention"
        /\ Has(i.location, "path")
        /\ i.location.path = <<"variables", name>>)

\* C18: in a result of the pipeline, a variable whose name does not match
\* the configured pattern has one variable/naming-convention issue, AUT-3312
\* of severity warn, and a result that reports nothing but such issues has
\* isValid = TRUE.
C18_NamingIsWarning ==
    ( /\ Returned
      /\ result.path = "try"
      /\ isRuleEnabled(config, "variable/naming-convention")
      /\ Has(workflow, "variables") )
    => /\ \A k \in 1..Len(workflow.variables) :
            LET at == AtVariable(result.value.issues, workflow.variables[k].name)
            IN  IF RegExpTest(VariableNamePattern(config), workflow.variables[k].name)
                THEN Len(at) = 0
                ELSE /\ Len(at) = 1
                     /\ at[1].errorCode = <<"AUT", 3312>>
                     /\ at[1].severity = "warn"
       /\ (\A i \in 1..Len(result.value.issues) :
              result.value.issues[i].ruleId = "variable/naming-convention")
          => result.value.isValid

\* every issue of the list whose rule is at level warn or error carries that
\* level as its severity
SeverityIsLevel(cfg, issues) ==
    \A i \in 1..Len(issues) :
        LevelOf(cfg, issues[i].ruleId) \in {"warn", "error"}
            => issues[i].severity = LevelOf(cfg, issues[i].ruleId)

\* C19: the severity of a reported issue is the level configured for its
\* rule: an issue of a rule set to warn has severity warn, an issue of a rule
\* set to error has severity error, and a result all of whose issues belong
\* to rules set to warn has isValid = TRUE.
C19_SeverityFollowsLevel ==
    /\ (Returned /\ result.path = "try") =>
        /\ SeverityIsLevel(config, result.value.issues)
        /\ (\A i \in 1..Len(result.value.issues) :
               LevelOf(config, result.value.issues[i].ruleId) = "warn")
           => result.value.isValid
    /\ NodesReturned => SeverityIsLevel(config, nodesResult.value)

\* the ids of the nodes that can be reached from an entry point along
\* connections to declared nodes
ReachableFromEntries(nodes) ==
    ReachFrom(nodes, { nodes[i].id : i \in { j \in 1..Len(nodes) : EntryPoint(nodes, j) } })

\* C20: with rule graph/unreachable-nodes enabled, the graph analysis of a
\* non-empty node list emits exactly one graph/unreachable-nodes issue,
\* AUT-3310 of severity warn, for each node that cannot be reached from any
\* entry point, and none for a node that can be reached.
C20_OneIssuePerUnreachableNode ==
    ( /\ NodesReturned
      /\ isRuleEnabled(config, "graph/unreachable-nodes")
      /\ Len(workflow.nodes) > 0 )
    => \A i \in 1..Len(workflow.nodes) :
        LET at == AtNode(nodesResult.value, "graph/unreachable-nodes",
                         workflow.nodes[i].id)
        IN  IF workflow.nodes[i].id \in ReachableFromEntries(workflow.nodes)
            THEN Len(at) = 0
            ELSE /\ Len(at) = 1
                 /\ at[1].errorCode = <<"AUT", 3310>>
                 /\ at[1].severity = "warn"

\* two nodes that lead to each other and that no entry point leads to, each
\* reported once
C20_Witness ==
    /\ NodesReturned
    /\ isRuleEnabled(config, "graph/unreachable-nodes")
    /\ Len(workflow.nodes) = 2
    /\ workflow.nodes[2].id \in Range(Connections(workflow.nodes[1]))
    /\ workflow.nodes[1].id \in Range(Connections(workflow.nodes[2]))
    /\ ReachableFromEntries(workflow.nodes) = {}
    /\ Count(nodesResult.value, LAMBDA i : i.ruleId = "graph/unreachable-nodes") = 2

\* forEach has returned
TraversalDone == entryQueue = <<>> /\ callStack = <<>>

\* C21: the reachability traversal terminates on every node list, with
\* cycles, self-loops and connections listed twice, and expands each node id
\* at most once: a call enters its loop only for an id not yet in
\* `reachable`, and no id ever leaves `reachable`.
C21_TraversalTerminates ==
    /\ <>TraversalDone
    /\ [][ /\ reachable \subseteq reachable'
           /\ Len(callStack') > Len(callStack) =>
                /\ callStack'[Len(callStack')].nodeId \notin reachable
                /\ callStack'[Len(callStack')].nodeId \in reachable' ]_vars

\* the traversal of the node list with a cycle, a self-loop and a connection
\* listed twice is over and has reached both nodes
C21_Witness ==
    /\ workflow.nodes = TangledNodes
    /\ TraversalDone
    /\ reachable = {NodeIdAt[1], NodeIdAt[2]}

\* C22: with rule graph/entry-points enabled, the graph analysis of a
\* non-empty node list emits one graph/entry-points issue, AUT-3311 at path
\* nodes, when the list has no node of kind trigger and every node has an
\* incoming edge from a declared node, and none otherwise.
C22_EntryPointIssue ==
    ( /\ NodesReturned
      /\ isRuleEnabled(config, "graph/entry-points")
      /\ Len(workflow.nodes) > 0 )
    => LET at == SelectSeq(nodesResult.value,
                           LAMBDA i : i.ruleId = "graph/entry-points")
       IN  IF \A i \in 1..Len(workflow.nodes) : ~EntryPoint(workflow.nodes, i)
           THEN /\ Len(at) = 1
                /\ at[1].errorCode = <<"AUT", 3311>>
                /\ at[1].location = [path |-> <<"nodes">>]
           ELSE Len(at) = 0

\* a single node of kind action that connects to itself, reported
C22_Witness ==
    /\ NodesReturned
    /\ isRuleEnabled(config, "graph/entry-points")
    /\ Len(workflow.nodes) = 1
    /\ Connections(workflow.nodes[1]) = <<workflow.nodes[1].id>>
    /\ Count(nodesResult.value, LAMBDA i : i.ruleId = "graph/entry-points") = 1

GraphRules == {"graph/missing-nodes", "graph/entry-points", "graph/unreachable-nodes"}

\* the graph issues of a list, without their sequence numbers
GraphIssuesOf(issues) ==
    LET own == SelectSeq(issues, LAMBDA i : i.ruleId \in GraphRules)
    IN  [ k \in 1..Len(own) |->
            [ ruleId |-> own[k].ruleId, errorCode |-> own[k].errorCode,
              severity |-> own[k].severity, location |-> own[k].location ] ]

\* the node list with the id of node i added to the connections of node i
WithSelfLoop(nodes, i) ==
    [nodes EXCEPT ![i] = [ c \in (DOMAIN @) \cup {"connections"} |->
                             IF c = "connections"
                             THEN Append(Connections(nodes[i]), nodes[i].id)
                             ELSE @[c] ]]

\* every issue of `more` occurs in `fewer` at least as often
NothingAdded(more, fewer) ==
    \A k \in 1..Len(more) :
        Count(more, LAMBDA i : i = more[k]) <= Count(fewer, LAMBDA i : i = more[k])

\* the graph issues validateNodes reports for the node list with a self-loop
\* added to node i hold nothing that those of the node list itself lack
SelfLoopAddsNothing(i) ==
    NothingAdded(
        GraphIssuesOf(validateNodes(config, WithSelfLoop(workflow.nodes, i), 1).issues),
        GraphIssuesOf(nodesResult.value))

\* C23 as stated: adding a node's own id to its connections never adds a
\* graph issue that the node list without the self-loop does not produce.
C23_SelfLoopAddsNoIssue ==
    NodesReturned =>
        \A i \in 1..Len(workflow.nodes) : SelfLoopAddsNothing(i)

\* C23 amended: adding its own id to the connections of a node that is of
\* kind trigger or has an incoming edge from a declared node never adds a
\* graph issue that the node list without the self-loop does not produce.
C23_SelfLoopAddsNoIssueUnlessSoleEdge ==
    NodesReturned =>
        \A i \in 1..Len(workflow.nodes) :
            ( \/ ToWorkflowNode(workflow.nodes[i]).type = "trigger"
              \/ \E j \in 1..Len(workflow.nodes) :
                    workflow.nodes[i].id \in Range(Connections(workflow.nodes[j])) )
            => SelfLoopAddsNothing(i)

\* the issues of a list in which the second node, without a self-loop, is
\* reached from the first and reported for nothing
C23_Witness ==
    /\ NodesReturned
    /\ Len(workflow.nodes) = 2
    /\ workflow.nodes[2].id \in Range(Connections(workflow.nodes[1]))
    /\ workflow.nodes[2].id \notin Range(Connections(workflow.nodes[2]))
    /\ GraphIssuesOf(nodesResult.value) = <<>>
    /\ SelfLoopAddsNothing(2)

\* the last call was validatePerformance
PerformanceReturned ==
    lastOp = "validatePerformance" /\ performanceIssues.state = "returned"

\* sum of the weights of nodes 1..k, a node without a weight counting as 0
RECURSIVE WeightUpTo(_, _)
WeightUpTo(nodes, k) ==
    IF k = 0 THEN 0
    ELSE WeightUpTo(nodes, k - 1) + (IF Has(nodes[k], "weight") THEN nodes[k].weight ELSE 0)

\* C24: with rule perf/high-weight enabled, the performance check of a
\* workflow with a node list emits the workflow-level perf/high-weight issue,
\* AUT-4120 at path nodes, exactly when the sum of the node weights is
\* strictly greater than maxWorkflowWeight times warnThreshold (800 with the
\* defaults); a sum equal to the threshold emits none.
C24_HighWeightOverThreshold ==
    ( /\ PerformanceReturned
      /\ isRuleEnabled(config, "perf/high-weight")
      /\ Has(workflow, "nodes") )
    => LET at == SelectSeq(performanceIssues.value,
                           LAMBDA i : i.ruleId = "perf/high-weight")
           sum == WeightUpTo(workflow.nodes, Len(workflow.nodes))
           threshold == WarnThreshold(config)
           over == sum * threshold.den
                     > RateLimit(config, "maxWorkflowWeight", 1000) * threshold.num
       IN  /\ config = Constructor(Empty) => (over <=> sum > 800)
           /\ IF over
              THEN /\ Len(at) = 1
                   /\ at[1].errorCode = <<"AUT", 4120>>
                   /\ at[1].location = [path |-> <<"nodes">>]
              ELSE Len(at) = 0

\* a workflow whose weights add up to the default threshold of 800 exactly,
\* checked without an issue
C24_Witness ==
    /\ PerformanceReturned
    /\ config = Constructor(Empty)
    /\ Has(workflow, "nodes")
    /\ WeightUpTo(workflow.nodes, Len(workflow.nodes)) = 800
    /\ performanceIssues.value = <<>>

\* the overrides a validator of the model is constructed with
Overrides ==
    StructureOverrides \cup GraphOverrides \cup PermissionOverrides \cup PerformanceOverrides

\* the override supplies setting `key` of group `group`
Supplies(override, group, key) ==
    /\ Has(override, "settings")
    /\ Has(override.settings, group)
    /\ Has(override.settings[group], key)

\* the override's value of the setting when it supplies one, else the
\* built-in default
Expected(override, group, key) ==
    IF Supplies(override, group, key)
    THEN override.settings[group][key]
    ELSE DEFAULT_LINT_CONFIG.settings[group][key]

\* C25: for every override passed to the constructor, the effective level of
\* each rule is the override's when the override names the rule and the
\* default otherwise, and the effective maxWorkflowWeight, maxNodeWeight,
\* warnThreshold and variable naming pattern are the override's when the
\* override supplies them and the defaults otherwise.
C25_OverrideEntryByEntry ==
    \A override \in Overrides :
        config = Constructor(override) =>
            /\ \A rule \in DOMAIN DEFAULT_LINT_CONFIG.rules :
                config.rules[rule] =
                    IF Has(override, "rules") /\ rule \in DOMAIN override.rules
                    THEN override.rules[rule]
                    ELSE DEFAULT_LINT_CONFIG.rules[rule]
            /\ RateLimit(config, "maxWorkflowWeight", 1000)
                 = Expected(override, "rateLimits", "maxWorkflowWeight")
            /\ RateLimit(config, "maxNodeWeight", 100)
                 = Expected(override, "rateLimits", "maxNodeWeight")
            /\ WarnThreshold(config) = Expected(override, "rateLimits", "warnThreshold")
            /\ VariableNamePattern(config)
                 = Expected(override, "naming", "variableNamePattern")

\* a list of issues without their sequence numbers
Stripped(issues) ==
    [ k \in 1..Len(issues) |->
        [ ruleId |-> issues[k].ruleId, errorCode |-> issues[k].errorCode,
          severity |-> issues[k].severity, location |-> issues[k].location ] ]

\* the issues of the six checks for workflow w, each check made once and in
\* the order of the pipeline, a check that does not apply contributing none
SectionsInOrder(cfg, w) ==
    Stripped(validateWorkflowStructure(cfg, w, 1))
    \o (IF Has(w, "nodes") /\ Len(w.nodes) > 0
        THEN Stripped(validateGraphIntegrity(cfg, w.nodes, 1)) ELSE <<>>)
    \o (IF Has(w, "nodes")
        THEN Stripped(validateNodeList(cfg, w.nodes, 1)) ELSE <<>>)
    \o (IF Has(w, "variables")
        THEN Stripped(validateVariables(cfg, w.variables, 1).issues) ELSE <<>>)
    \o Stripped(validatePerformance(cfg, w, 1))
    \o (IF Has(w, "trigger") /\ Has(w, "nodes")
        THEN Stripped(detectAndValidatePermissions(cfg, w, 1).issues) ELSE <<>>)

\* C26: in every result of validateWorkflow the issue list is the
\* concatenation, in this order, of the structural, graph, node, variable,
\* performance and permission issues that pass the rule filter, each check's
\* issues once, and a check that does not apply to the workflow contributes
\* none.
C26_SectionsConcatenated ==
    (Returned /\ lastOp = "validateWorkflow") =>
        Stripped(result.value.issues)
            = Stripped(filterIssues(config, SectionsInOrder(config, workflow)))

\* the counter value in the id of an issue
NumberOf(issue) == issue.id[2]

\* the issues of a list carry counter values from `from` up to but not
\* including `to`, each larger than that of the issue before it
NumberedWithin(issues, from, to) ==
    /\ \A k \in 1..Len(issues) : from <= NumberOf(issues[k]) /\ NumberOf(issues[k]) < to
    /\ \A k \in 1..(Len(issues) - 1) : NumberOf(issues[k]) < NumberOf(issues[k + 1])

\* C27: over any sequence of validateWorkflow and validateNodes calls on one
\* validator the issue-id counter never decreases, and the issues a call
\* returns carry counter values the call itself consumed: at least the value
\* of the counter before the call, below its value after the call, and
\* increasing within a list.  So no two issues of the instance share an id,
\* the system-error issues included, and a later issue has a larger number.
C27_IssueIdsIncrease ==
    [][ /\ nextIssueId' >= nextIssueId
        /\ (lastOp' = "validateWorkflow" /\ calls' = calls + 1) =>
            /\ NumberedWithin(result'.value.issues, nextIssueId, nextIssueId')
            /\ NumberedWithin(result'.value.errors, nextIssueId, nextIssueId')
            /\ result'.path = "catch" =>
                 NumberOf(result'.value.issues[1]) # NumberOf(result'.value.errors[1])
        /\ (lastOp' = "validateNodes" /\ calls' = calls + 1) =>
            NumberedWithin(nodesResult'.value, nextIssueId, nextIssueId') ]_vars

\* a validateNodes call that returned issues and a validateWorkflow call
\* that returned the system-error issue were made on one validator
C27_Witness ==
    /\ calls = 2
    /\ result.state = "fulfilled" /\ result.path = "catch"
    /\ nodesResult.state = "fulfilled"
    /\ Len(nodesResult.value) >= 2
    /\ nextIssueId > Len(nodesResult.value) + 2

\* C28: in every result of validateWorkflow, the fallback result included,
\* summary.total is the length of issues, each of summary.errors, warnings,
\* infos and criticals is the length of its sublist, and the ids of the four
\* sublists together are exactly the ids of issues, each id in one sublist.
C28_SummaryAndSublists ==
    Returned =>
        LET r == result.value
            sublists == r.errors \o r.warnings \o r.infos \o r.criticals
        IN  /\ r.summary.total = Len(r.issues)
            /\ r.summary.errors = Len(r.errors)
            /\ r.summary.warnings = Len(r.warnings)
            /\ r.summary.infos = Len(r.infos)
            /\ r.summary.criticals = Len(r.criticals)
            /\ { sublists[k].id : k \in 1..Len(sublists) }
                 = { r.issues[k].id : k \in 1..Len(r.issues) }
            /\ \A k \in 1..Len(r.issues) :
                 Count(sublists, LAMBDA i : i.id = r.issues[k].id) = 1

\* C29: in the summary of generatePermissionSummary, for every pack, two
\* workflows with one id included, every capability of totalPermissions is
\* either in sharedPermissions or in the uniquePermissions list of exactly
\* one workflow, never in both, and permissionCount is the size of
\* sharedPermissions plus the sizes of all uniquePermissions lists.
C29_SummaryPartitionsTotal ==
    PackReturned("generatePermissionSummary") =>
        LET r == packResult.value
            ids == DOMAIN r.uniquePermissions
            holders(c) == { id \in ids : c \in Range(r.uniquePermissions[id]) }
            uniqueEntries == UNION { { <<id, k>> : k \in 1..Len(r.uniquePermissions[id]) } :
                                     id \in ids }
        IN  /\ \A c \in Range(r.totalPermissions) :
                IF c \in Range(r.sharedPermissions)
                THEN holders(c) = {}
                ELSE Cardinality(holders(c)) = 1
            /\ r.permissionCount = Len(r.sharedPermissions) + Cardinality(uniqueEntries)

====
